---- MODULE Spec2Model ----
(***************************************************************************)
(* Model of the query pipeline of economic_dashboard/database.py:          *)
(* get_data builds a parameterised SQL statement for one of four           *)
(* aggregation levels, execute_query runs it on the warehouse and          *)
(* optionally pivots the long result to wide form.                         *)
(*                                                                         *)
(* SQL text is a sequence of fragments: the literal pieces of the source's *)
(* f-strings and, between them, the interpolated pieces.  The warehouse    *)
(* sees only that text and the bound-parameter map and evaluates them.     *)
(***************************************************************************)
EXTENDS Integers, Sequences, FiniteSets, TLC

VARIABLES
    facts,      \* warehouse content: the rows of FACT_CPI and FACT_BOP
    request,    \* arguments of the last get_data call (None before any call)
    query,      \* SQL text built by the last call (<<>> when none was built)
    params,     \* bound-parameter map of the last call
    executed,   \* statements executed on the warehouse during the last call
    cursor,     \* "none", "open" or "closed": the cursor of the last call
    errors,     \* messages reported through st.error during the last call
    result,     \* the DataFrame returned by the last call
    fault,      \* what fails in the warehouse access of a call ("none": nothing)
    fetched,    \* the DataFrame of the last call as fetched, before reshaping
    cursor_ops, \* the operations of the last call on its cursor, in order
    raised,     \* the exception the last call let through to its caller
    has_section,\* whether DIM_INDICATOR has a SECTION column
    data_cache, \* st.cache_data: the cached returns of the reference lookups
    lookup,     \* the last reference lookup: its call and what it did
    calls,      \* the number of reference lookups made
    resource_cache, \* st.cache_resource: the cached returns of get_oracle_connection
    connections,    \* the connections the driver has opened: "open" or "closed"
    session_state,  \* st.session_state of each browser session
    login,          \* the last submission of the login form and what it did
    notice,         \* the last message the page showed to each session
    page            \* the last run of a tab of the page: what it showed and sent

vars == <<facts, request, query, params, executed, cursor, errors, result,
          fault, fetched, cursor_ops, raised,
          has_section, data_cache, lookup, calls,
          resource_cache, connections, session_state, login, notice, page>>

\* The variables of the query pipeline and of the reference lookups, and
\* those of the login page.
queryVars == <<facts, request, query, params, executed, cursor, errors, result,
               fault, fetched, cursor_ops, raised,
               has_section, data_cache, lookup, calls>>
sessionVars == <<resource_cache, connections, session_state, login, notice, page>>

-----------------------------------------------------------------------------
(* Optional values (Python None, SQL NULL) and small helpers.              *)

None == <<>>
Some(x) == <<x>>
Get(o) == o[1]

Range(s) == {s[i] : i \in DOMAIN s}
Has(s, x) == \E i \in DOMAIN s : s[i] = x

RECURSIVE GCD(_, _)
GCD(a, b) == IF b = 0 THEN a ELSE GCD(b, a % b)

\* An exact number n/d in lowest terms (Oracle NUMBER arithmetic is exact
\* for the sums and means of the integers used here).
Rat(n, d) == LET g == GCD(n, d) IN [n |-> n \div g, d |-> d \div g]

\* Python truthiness of an optional integer.
TruthyInt(o) == o # None /\ Get(o) # 0

\* A names argument is None, a list Some(<<name, ...>>) or a single str:
\* Str(s) is a str passed where the list is expected.
Str(s) == <<"str", s>>

\* isinstance(names, str)
isinstance_str(o) == Len(o) = 2

\* if isinstance(names, str): names = [names]
AsList(o) ==
    IF o = None THEN <<>>
    ELSE IF isinstance_str(o) THEN <<o[2]>>
    ELSE Get(o)

\* Mutant of TruthyList: an empty list counts as given.
TruthyList_NotNone(o) == o # None

\* if names and len(names) > 0: an empty list and an empty str are falsy.
TruthyList(o) ==
    /\ o # None
    /\ IF isinstance_str(o) THEN o[2] # "" ELSE Len(Get(o)) > 0

-----------------------------------------------------------------------------
(* Literal fragments of the SQL text (database.py:140-311).                *)

FROM_JOINS ==
    " f JOIN DIM_TIME t ON f.TIME_ID = t.TIME_ID JOIN DIM_LOCATION l ON f.LOCATION_ID = l.LOCATION_ID JOIN DIM_INDICATOR i ON f.INDICATOR_ID = i.INDICATOR_ID LEFT JOIN DIM_UNITS u ON f.UNIT_ID = u.UNIT_ID"
WHERE_YEARS ==
    " WHERE t.YEAR BETWEEN :start_year AND :end_year AND l.LOCATION_NAME = :location"
WHERE_FISCAL ==
    " WHERE ((t.YEAR = :start_year - 1 AND t.MONTH >= 7) OR (t.YEAR BETWEEN :start_year AND :end_year) OR (t.YEAR = :end_year + 1 AND t.MONTH <= 6)) AND l.LOCATION_NAME = :location"
SELECT_MONTHLY ==
    "SELECT t.TIME_PERIOD, t.YEAR, t.MONTH, t.QUARTER, l.LOCATION_NAME, i.INDICATOR_NAME, i.INDICATOR_TYPE, i.DESCRIPTION, f.VALUE, u.UNIT FROM "
SELECT_QUARTERLY ==
    "SELECT t.YEAR || 'Q' || t.QUARTER AS TIME_PERIOD, t.YEAR, t.QUARTER, l.LOCATION_NAME, i.INDICATOR_NAME, i.INDICATOR_TYPE, i.DESCRIPTION, CASE WHEN UPPER(i.INDICATOR_TYPE) = 'FLOW' THEN "
SELECT_FISCAL ==
    "SELECT 'FY' || CASE WHEN t.MONTH >= 7 THEN t.YEAR || '/' || (t.YEAR + 1) ELSE (t.YEAR - 1) || '/' || t.YEAR END AS TIME_PERIOD, CASE WHEN t.MONTH >= 7 THEN t.YEAR ELSE t.YEAR - 1 END AS FISCAL_YEAR, l.LOCATION_NAME, i.INDICATOR_NAME, i.INDICATOR_TYPE, i.DESCRIPTION, CASE WHEN UPPER(i.INDICATOR_TYPE) = 'FLOW' THEN "
SELECT_ANNUAL ==
    "SELECT t.YEAR AS TIME_PERIOD, t.YEAR, l.LOCATION_NAME, i.INDICATOR_NAME, i.INDICATOR_TYPE, i.DESCRIPTION, CASE WHEN UPPER(i.INDICATOR_TYPE) = 'FLOW' THEN "
STOCK_QUARTER_END ==
    "(f.VALUE) WHEN UPPER(i.INDICATOR_TYPE) = 'STOCK' THEN MAX(CASE WHEN t.IS_QUARTER_END = 1 THEN f.VALUE END) ELSE "
STOCK_JUNE ==
    "(f.VALUE) WHEN UPPER(i.INDICATOR_TYPE) = 'STOCK' THEN MAX(CASE WHEN t.MONTH = 6 THEN f.VALUE END) ELSE "
STOCK_DECEMBER ==
    "(f.VALUE) WHEN UPPER(i.INDICATOR_TYPE) = 'STOCK' THEN MAX(CASE WHEN t.MONTH = 12 THEN f.VALUE END) ELSE "
CASE_END == "(f.VALUE) END AS VALUE, u.UNIT FROM "
MONTH_FILTER == " AND t.MONTH BETWEEN :start_month AND :end_month"
IN_INDICATOR == " AND i.INDICATOR_NAME IN ("
IN_UNIT == " AND u.UNIT IN ("
COMMA == ","
CLOSE_PAREN == ")"
GROUP_QUARTERLY ==
    " GROUP BY t.YEAR, t.QUARTER, l.LOCATION_NAME, i.INDICATOR_NAME, i.INDICATOR_TYPE, i.DESCRIPTION, u.UNIT ORDER BY t.YEAR, t.QUARTER, i.INDICATOR_NAME"
GROUP_FISCAL ==
    " GROUP BY CASE WHEN t.MONTH >= 7 THEN t.YEAR ELSE t.YEAR - 1 END, CASE WHEN t.MONTH >= 7 THEN t.YEAR || '/' || (t.YEAR + 1) ELSE (t.YEAR - 1) || '/' || t.YEAR END, l.LOCATION_NAME, i.INDICATOR_NAME, i.INDICATOR_TYPE, i.DESCRIPTION, u.UNIT ORDER BY CASE WHEN t.MONTH >= 7 THEN t.YEAR ELSE t.YEAR - 1 END, i.INDICATOR_NAME"
GROUP_ANNUAL ==
    " GROUP BY t.YEAR, l.LOCATION_NAME, i.INDICATOR_NAME, i.INDICATOR_TYPE, i.DESCRIPTION, u.UNIT ORDER BY t.YEAR, i.INDICATOR_NAME"
ORDER_MONTHLY == " ORDER BY t.TIME_PERIOD, l.LOCATION_NAME, i.INDICATOR_NAME"

-----------------------------------------------------------------------------
(* get_data, the query-building part (database.py:122-311).                *)

\* map_table = {'CPI': 'FACT_CPI', 'BOP': 'FACT_BOP'}
map_table == [g \in {"CPI", "BOP"} |-> IF g = "CPI" THEN "FACT_CPI" ELSE "FACT_BOP"]

\* Mutant of flow_agg: the two functions swapped.
flow_agg_Swapped(data_group) == IF data_group = "BOP" THEN "AVG" ELSE "SUM"

\* CPI flows are averaged, BOP flows are summed.
flow_agg(data_group) == IF data_group = "BOP" THEN "SUM" ELSE "AVG"

\* SELECT ... FROM ... WHERE of the chosen aggregation level.
SelectPart(aggregation, data_group) ==
    LET fact_table == map_table[data_group]
        agg == flow_agg(data_group)
    IN  IF aggregation = "monthly" THEN
            <<SELECT_MONTHLY, fact_table, FROM_JOINS, WHERE_YEARS>>
        ELSE IF aggregation = "quarterly" THEN
            <<SELECT_QUARTERLY, agg, STOCK_QUARTER_END, agg, CASE_END,
              fact_table, FROM_JOINS, WHERE_YEARS>>
        ELSE IF aggregation = "fiscal_year" THEN
            <<SELECT_FISCAL, agg, STOCK_JUNE, agg, CASE_END,
              fact_table, FROM_JOINS, WHERE_FISCAL>>
        ELSE
            <<SELECT_ANNUAL, agg, STOCK_DECEMBER, agg, CASE_END,
              fact_table, FROM_JOINS, WHERE_YEARS>>

\* Whether the month filter is added: if start_month and end_month.
MonthFilterAdded(r) == TruthyInt(r.start_month) /\ TruthyInt(r.end_month)

MonthPart(r) == IF MonthFilterAdded(r) THEN <<MONTH_FILTER>> ELSE <<>>

\* ','.join([f':{prefix}{i}' for i in range(n)])
RECURSIVE Placeholders(_, _)
Placeholders(prefix, n) ==
    IF n = 0 THEN <<>>
    ELSE IF n = 1 THEN <<":" \o prefix \o ToString(0)>>
    ELSE Placeholders(prefix, n - 1) \o <<COMMA, ":" \o prefix \o ToString(n - 1)>>

\* Mutant of InPart: the names themselves are joined into the text.
InPart_Inline(opening, prefix, names) ==
    IF TruthyList(names)
    THEN <<opening>> \o AsList(names) \o <<CLOSE_PAREN>>
    ELSE <<>>

\* The IN-clause of a name list, added only for a non-empty list.
InPart(opening, prefix, names) ==
    IF TruthyList(names)
    THEN <<opening>> \o Placeholders(prefix, Len(AsList(names))) \o <<CLOSE_PAREN>>
    ELSE <<>>

\* GROUP BY / ORDER BY of the chosen aggregation level.
TailPart(aggregation) ==
    IF aggregation = "quarterly" THEN <<GROUP_QUARTERLY>>
    ELSE IF aggregation = "fiscal_year" THEN <<GROUP_FISCAL>>
    ELSE IF aggregation = "annual" THEN <<GROUP_ANNUAL>>
    ELSE <<ORDER_MONTHLY>>

\* The SQL text of a request whose data_group is valid.
BuildText(r) ==
    SelectPart(r.aggregation, r.data_group)
        \o MonthPart(r)
        \o InPart(IN_INDICATOR, "ind", r.indicator_names)
        \o InPart(IN_UNIT, "unit", r.unit_names)
        \o TailPart(r.aggregation)

\* Mutant of ListParams: only the first name of the list is bound.
ListParams_FirstOnly(prefix, names) ==
    IF TruthyList(names)
    THEN {<<prefix \o ToString(0), AsList(names)[1]>>}
    ELSE {}

\* Parameters bound for a name list: prefix0 .. prefix(n-1).
ListParams(prefix, names) ==
    IF TruthyList(names)
    THEN {<<prefix \o ToString(i - 1), AsList(names)[i]>> : i \in 1..Len(AsList(names))}
    ELSE {}

\* The bound-parameter map, as a set of <<name, value>> pairs.
BuildParams(r) ==
    {<<"start_year", r.start_year>>, <<"end_year", r.end_year>>,
     <<"location", r.location>>}
    \cup (IF MonthFilterAdded(r)
          THEN {<<"start_month", Get(r.start_month)>>,
                <<"end_month", Get(r.end_month)>>}
          ELSE {})
    \cup ListParams("ind", r.indicator_names)
    \cup ListParams("unit", r.unit_names)

-----------------------------------------------------------------------------
(* The warehouse: the star schema the statements run against.  Dimension   *)
(* rows are reached through the joins of the FROM clause; a fact row is    *)
(* written with its dimension keys already resolved to the natural keys.   *)

\* DIM_INDICATOR: INDICATOR_NAME -> INDICATOR_TYPE, DESCRIPTION.
DIM_INDICATOR ==
    [i \in {"Exports", "Index", "Reserves"} |->
        IF i = "Exports" THEN [INDICATOR_TYPE |-> "Flow", DESCRIPTION |-> "Exports of goods"]
        ELSE IF i = "Reserves" THEN [INDICATOR_TYPE |-> "stock", DESCRIPTION |-> "Official reserves"]
        ELSE [INDICATOR_TYPE |-> "INDEX", DESCRIPTION |-> "Headline index"]]

\* DIM_TIME columns of the row of (YEAR, MONTH).
QUARTER(month) == ((month - 1) \div 3) + 1
IS_QUARTER_END(month) == IF month % 3 = 0 THEN 1 ELSE 0
TIME_PERIOD(year, month) ==
    ToString(year) \o (IF month < 10 THEN "-0" ELSE "-") \o ToString(month)

\* Oracle UPPER on the type strings of DIM_INDICATOR.
UPPER(s) ==
    IF s \in {"Flow", "flow", "FLOW"} THEN "FLOW"
    ELSE IF s \in {"Stock", "stock", "STOCK"} THEN "STOCK"
    ELSE IF s \in {"cpi", "Cpi", "CPI"} THEN "CPI"
    ELSE IF s \in {"bop", "Bop", "BOP"} THEN "BOP"
    ELSE s

\* Binary collation of the names of the model, ascending.
Collation == <<"Exports", "Index", "Kenya", "Reserves", "TZS Million", "Tanzania", "USD Million">>
StrRank(s) == CHOOSE i \in DOMAIN Collation : Collation[i] = s

\* The row source of FROM fact_table f JOIN ... LEFT JOIN DIM_UNITS u.
Joined(table, F) ==
    {[YEAR |-> f.YEAR, MONTH |-> f.MONTH, QUARTER |-> QUARTER(f.MONTH),
      IS_QUARTER_END |-> IS_QUARTER_END(f.MONTH),
      TIME_PERIOD |-> TIME_PERIOD(f.YEAR, f.MONTH),
      LOCATION_NAME |-> f.LOCATION_NAME,
      INDICATOR_NAME |-> f.INDICATOR_NAME,
      INDICATOR_TYPE |-> DIM_INDICATOR[f.INDICATOR_NAME].INDICATOR_TYPE,
      DESCRIPTION |-> DIM_INDICATOR[f.INDICATOR_NAME].DESCRIPTION,
      VALUE |-> f.VALUE, UNIT |-> f.UNIT] : f \in {g \in F : g.table = table}}

-----------------------------------------------------------------------------
(* Reading a statement: what the warehouse makes of text and parameters.   *)

Heads == {SELECT_MONTHLY, SELECT_QUARTERLY, SELECT_FISCAL, SELECT_ANNUAL}
HeadLen(text) == IF text[1] = SELECT_MONTHLY THEN 4 ELSE 8
TableOf(text) == IF text[1] = SELECT_MONTHLY THEN text[2] ELSE text[6]
WhereOf(text) == text[HeadLen(text)]

\* Position of the first CLOSE_PAREN after position p (0 when there is none).
ClosePos(text, p) ==
    IF \E j \in (p + 1)..Len(text) : text[j] = CLOSE_PAREN
    THEN CHOOSE j \in (p + 1)..Len(text) :
            /\ text[j] = CLOSE_PAREN
            /\ \A k \in (p + 1)..(j - 1) : text[k] # CLOSE_PAREN
    ELSE 0

\* The clause layout after the WHERE fragment: positions of the optional
\* month filter, indicator IN-list, unit IN-list and of the tail.
Layout(text) ==
    LET p0 == HeadLen(text) + 1
        hasMonth == p0 <= Len(text) /\ text[p0] = MONTH_FILTER
        p1 == IF hasMonth THEN p0 + 1 ELSE p0
        hasInd == p1 <= Len(text) /\ text[p1] = IN_INDICATOR
        c1 == IF hasInd THEN ClosePos(text, p1) ELSE 0
        p2 == IF hasInd THEN c1 + 1 ELSE p1
        hasUnit == p2 <= Len(text) /\ text[p2] = IN_UNIT
        c2 == IF hasUnit THEN ClosePos(text, p2) ELSE 0
        p3 == IF hasUnit THEN c2 + 1 ELSE p2
    IN  [hasMonth |-> hasMonth,
         hasInd |-> hasInd, indFrom |-> p1 + 1, indTo |-> c1 - 1,
         hasUnit |-> hasUnit, unitFrom |-> p2 + 1, unitTo |-> c2 - 1,
         tail |-> p3]

\* The placeholders of an IN-list between positions from..to.
InList(text, from, to) ==
    [k \in 1..((to - from) \div 2 + 1) |-> text[from + 2 * (k - 1)]]

\* An IN-list is well formed: placeholder (COMMA placeholder)*, not empty.
InListOK(text, from, to, names) ==
    /\ to >= from
    /\ (to - from) % 2 = 0
    /\ \A j \in from..to :
          IF (j - from) % 2 = 0
          THEN \E n \in names : text[j] = ":" \o n
          ELSE text[j] = COMMA

\* The statement parses and every placeholder is bound exactly: Oracle raises
\* on a syntax error, an unknown table, an aggregate without its GROUP BY, an
\* unbound placeholder and a bound name that is no placeholder.
StatementOK(text, P) ==
    LET names == {b[1] : b \in P} IN
    /\ Len(text) >= 5
    /\ text[1] \in Heads
    /\ Len(text) >= HeadLen(text) + 1
    /\ TableOf(text) \in {"FACT_CPI", "FACT_BOP"}
    /\ text[HeadLen(text) - 1] = FROM_JOINS
    /\ text[1] # SELECT_MONTHLY =>
          /\ text[2] \in {"SUM", "AVG"} /\ text[4] \in {"SUM", "AVG"}
          /\ text[5] = CASE_END
          /\ text[3] = (IF text[1] = SELECT_QUARTERLY THEN STOCK_QUARTER_END
                        ELSE IF text[1] = SELECT_FISCAL THEN STOCK_JUNE
                        ELSE STOCK_DECEMBER)
    /\ WhereOf(text) = (IF text[1] = SELECT_FISCAL THEN WHERE_FISCAL ELSE WHERE_YEARS)
    /\ LET L == Layout(text) IN
          /\ L.hasInd => InListOK(text, L.indFrom, L.indTo, names)
          /\ L.hasUnit => InListOK(text, L.unitFrom, L.unitTo, names)
          /\ L.tail = Len(text)
          /\ text[L.tail] = (IF text[1] = SELECT_MONTHLY THEN ORDER_MONTHLY
                             ELSE IF text[1] = SELECT_QUARTERLY THEN GROUP_QUARTERLY
                             ELSE IF text[1] = SELECT_FISCAL THEN GROUP_FISCAL
                             ELSE GROUP_ANNUAL)
          /\ names = {"start_year", "end_year", "location"}
                        \cup (IF L.hasMonth THEN {"start_month", "end_month"} ELSE {})
                        \cup (IF L.hasInd
                              THEN {n \in names : Has(InList(text, L.indFrom, L.indTo), ":" \o n)}
                              ELSE {})
                        \cup (IF L.hasUnit
                              THEN {n \in names : Has(InList(text, L.unitFrom, L.unitTo), ":" \o n)}
                              ELSE {})

\* The value bound to a name, and to a placeholder.
Bound(P, name) == (CHOOSE b \in P : b[1] = name)[2]
BoundAt(P, placeholder) == (CHOOSE b \in P : ":" \o b[1] = placeholder)[2]

\* The values an IN-list stands for.
InValues(text, from, to, P) ==
    {BoundAt(P, ph) : ph \in Range(InList(text, from, to))}

-----------------------------------------------------------------------------
(* Evaluating a statement on the warehouse.                                *)

\* Mutant of InWindow: the fiscal window is not widened.
InWindow_NotWidened(where, P, year, month) ==
    Bound(P, "start_year") <= year /\ year <= Bound(P, "end_year")

\* The year window of the WHERE fragment.
InWindow(where, P, year, month) ==
    LET sy == Bound(P, "start_year")
        ey == Bound(P, "end_year")
    IN  IF where = WHERE_FISCAL
        THEN \/ (year = sy - 1 /\ month >= 7)
             \/ (sy <= year /\ year <= ey)
             \/ (year = ey + 1 /\ month <= 6)
        ELSE sy <= year /\ year <= ey

\* Mutant of Selected: a row without a unit passes a unit list.
Selected_UnitlessPasses(text, P, j) ==
    LET L == Layout(text) IN
    /\ InWindow(WhereOf(text), P, j.YEAR, j.MONTH)
    /\ j.LOCATION_NAME = Bound(P, "location")
    /\ L.hasMonth =>
          /\ Bound(P, "start_month") <= j.MONTH
          /\ j.MONTH <= Bound(P, "end_month")
    /\ L.hasInd => j.INDICATOR_NAME \in InValues(text, L.indFrom, L.indTo, P)
    /\ L.hasUnit =>
          \/ j.UNIT = None
          \/ Get(j.UNIT) \in InValues(text, L.unitFrom, L.unitTo, P)

\* The WHERE clause on one row of the row source.  A comparison with a NULL
\* unit is not true, so u.UNIT IN (...) drops the rows without a unit.
Selected(text, P, j) ==
    LET L == Layout(text) IN
    /\ InWindow(WhereOf(text), P, j.YEAR, j.MONTH)
    /\ j.LOCATION_NAME = Bound(P, "location")
    /\ L.hasMonth =>
          /\ Bound(P, "start_month") <= j.MONTH
          /\ j.MONTH <= Bound(P, "end_month")
    /\ L.hasInd => j.INDICATOR_NAME \in InValues(text, L.indFrom, L.indTo, P)
    /\ L.hasUnit =>
          /\ j.UNIT # None
          /\ Get(j.UNIT) \in InValues(text, L.unitFrom, L.unitTo, P)

\* Mutant of FISCAL_YEAR: the calendar year.
FISCAL_YEAR_Calendar(j) == j.YEAR

\* The fiscal year of a row: CASE WHEN t.MONTH >= 7 THEN t.YEAR ELSE t.YEAR - 1.
FISCAL_YEAR(j) == IF j.MONTH >= 7 THEN j.YEAR ELSE j.YEAR - 1

\* 'FY' || CASE WHEN t.MONTH >= 7 THEN t.YEAR || '/' || (t.YEAR + 1)
\*              ELSE (t.YEAR - 1) || '/' || t.YEAR END
FiscalLabel(j) ==
    "FY" \o (IF j.MONTH >= 7
             THEN ToString(j.YEAR) \o "/" \o ToString(j.YEAR + 1)
             ELSE ToString(j.YEAR - 1) \o "/" \o ToString(j.YEAR))

\* t.YEAR || 'Q' || t.QUARTER
QuarterLabel(j) == ToString(j.YEAR) \o "Q" \o ToString(j.QUARTER)

\* The GROUP BY key of a row.
GroupKey(text, j) ==
    IF text[1] = SELECT_QUARTERLY THEN
        <<j.YEAR, j.QUARTER, j.LOCATION_NAME, j.INDICATOR_NAME,
          j.INDICATOR_TYPE, j.DESCRIPTION, j.UNIT>>
    ELSE IF text[1] = SELECT_FISCAL THEN
        <<FISCAL_YEAR(j), FiscalLabel(j), j.LOCATION_NAME, j.INDICATOR_NAME,
          j.INDICATOR_TYPE, j.DESCRIPTION, j.UNIT>>
    ELSE
        <<j.YEAR, j.LOCATION_NAME, j.INDICATOR_NAME,
          j.INDICATOR_TYPE, j.DESCRIPTION, j.UNIT>>

\* SUM, AVG and MAX skip NULLs and give NULL for a group without a value.
RECURSIVE SumValues(_)
SumValues(G) ==
    IF G = {} THEN 0
    ELSE LET j == CHOOSE x \in G : TRUE IN Get(j.VALUE) + SumValues(G \ {j})

NonNull(G) == {j \in G : j.VALUE # None}

Aggregate(fn, G) ==
    LET N == NonNull(G) IN
    IF N = {} THEN None
    ELSE IF fn = "SUM" THEN Some(Rat(SumValues(N), 1))
    ELSE IF fn = "AVG" THEN Some(Rat(SumValues(N), Cardinality(N)))
    ELSE LET m == CHOOSE x \in N : \A y \in N : Get(y.VALUE) <= Get(x.VALUE)
         IN  Some(Rat(Get(m.VALUE), 1))

\* Mutant of PeriodEnd: every row of the group.
PeriodEnd_All(text, G) == G

\* The rows of a group that the STOCK branch looks at.
PeriodEnd(text, G) ==
    IF text[3] = STOCK_QUARTER_END THEN {j \in G : j.IS_QUARTER_END = 1}
    ELSE IF text[3] = STOCK_JUNE THEN {j \in G : j.MONTH = 6}
    ELSE {j \in G : j.MONTH = 12}

\* CASE WHEN UPPER(type) = 'FLOW' THEN agg(VALUE)
\*      WHEN UPPER(type) = 'STOCK' THEN MAX(CASE WHEN <period end> THEN VALUE END)
\*      ELSE agg(VALUE) END
CaseValue(text, type, G) ==
    IF UPPER(type) = "FLOW" THEN Aggregate(text[2], G)
    ELSE IF UPPER(type) = "STOCK" THEN Aggregate("MAX", PeriodEnd(text, G))
    ELSE Aggregate(text[4], G)

\* One result row of an aggregated statement, from a group G of rows.
GroupRow(text, G) ==
    LET j == CHOOSE x \in G : TRUE
        v == CaseValue(text, j.INDICATOR_TYPE, G)
    IN  IF text[1] = SELECT_QUARTERLY THEN
            [TIME_PERIOD |-> QuarterLabel(j), YEAR |-> j.YEAR, QUARTER |-> j.QUARTER,
             LOCATION_NAME |-> j.LOCATION_NAME, INDICATOR_NAME |-> j.INDICATOR_NAME,
             INDICATOR_TYPE |-> j.INDICATOR_TYPE, DESCRIPTION |-> j.DESCRIPTION,
             VALUE |-> v, UNIT |-> j.UNIT]
        ELSE IF text[1] = SELECT_FISCAL THEN
            [TIME_PERIOD |-> FiscalLabel(j), FISCAL_YEAR |-> FISCAL_YEAR(j),
             LOCATION_NAME |-> j.LOCATION_NAME, INDICATOR_NAME |-> j.INDICATOR_NAME,
             INDICATOR_TYPE |-> j.INDICATOR_TYPE, DESCRIPTION |-> j.DESCRIPTION,
             VALUE |-> v, UNIT |-> j.UNIT]
        ELSE
            [TIME_PERIOD |-> j.YEAR, YEAR |-> j.YEAR,
             LOCATION_NAME |-> j.LOCATION_NAME, INDICATOR_NAME |-> j.INDICATOR_NAME,
             INDICATOR_TYPE |-> j.INDICATOR_TYPE, DESCRIPTION |-> j.DESCRIPTION,
             VALUE |-> v, UNIT |-> j.UNIT]

\* One result row of the monthly statement.
MonthlyRow(j) ==
    [TIME_PERIOD |-> j.TIME_PERIOD, YEAR |-> j.YEAR, MONTH |-> j.MONTH,
     QUARTER |-> j.QUARTER, LOCATION_NAME |-> j.LOCATION_NAME,
     INDICATOR_NAME |-> j.INDICATOR_NAME, INDICATOR_TYPE |-> j.INDICATOR_TYPE,
     DESCRIPTION |-> j.DESCRIPTION,
     VALUE |-> IF j.VALUE = None THEN None ELSE Some(Rat(Get(j.VALUE), 1)),
     UNIT |-> j.UNIT]

\* The rows the WHERE clause keeps.
SelectedRows(text, P, F) == {j \in Joined(TableOf(text), F) : Selected(text, P, j)}

\* The groups of the selected rows.
Groups(text, P, F) ==
    LET S == SelectedRows(text, P, F)
    IN  {{j \in S : GroupKey(text, j) = GroupKey(text, k)} : k \in S}

\* The rows of the result, before ordering.
ResultRows(text, P, F) ==
    IF text[1] = SELECT_MONTHLY
    THEN {MonthlyRow(j) : j \in SelectedRows(text, P, F)}
    ELSE {GroupRow(text, G) : G \in Groups(text, P, F)}

\* cursor.description: the column names of the result.
Description(text) ==
    IF text[1] = SELECT_MONTHLY THEN
        <<"TIME_PERIOD", "YEAR", "MONTH", "QUARTER", "LOCATION_NAME", "INDICATOR_NAME",
          "INDICATOR_TYPE", "DESCRIPTION", "VALUE", "UNIT">>
    ELSE IF text[1] = SELECT_QUARTERLY THEN
        <<"TIME_PERIOD", "YEAR", "QUARTER", "LOCATION_NAME", "INDICATOR_NAME",
          "INDICATOR_TYPE", "DESCRIPTION", "VALUE", "UNIT">>
    ELSE IF text[1] = SELECT_FISCAL THEN
        <<"TIME_PERIOD", "FISCAL_YEAR", "LOCATION_NAME", "INDICATOR_NAME",
          "INDICATOR_TYPE", "DESCRIPTION", "VALUE", "UNIT">>
    ELSE
        <<"TIME_PERIOD", "YEAR", "LOCATION_NAME", "INDICATOR_NAME",
          "INDICATOR_TYPE", "DESCRIPTION", "VALUE", "UNIT">>

\* The position of a result row in time.  TIME_PERIOD is in one-to-one,
\* order-preserving correspondence with it at every aggregation level.
PeriodKey(row) ==
    IF "MONTH" \in DOMAIN row THEN <<row.YEAR, row.MONTH>>
    ELSE IF "QUARTER" \in DOMAIN row THEN <<row.YEAR, row.QUARTER>>
    ELSE IF "FISCAL_YEAR" \in DOMAIN row THEN <<row.FISCAL_YEAR, 0>>
    ELSE <<row.YEAR, 0>>

\* Mutant of OrderKey: the indicator name comes first.
OrderKey_NameFirst(text, row) == <<StrRank(row.INDICATOR_NAME)>> \o PeriodKey(row)

\* The ORDER BY key of a result row.
OrderKey(text, row) ==
    IF text[Len(text)] = ORDER_MONTHLY
    THEN PeriodKey(row) \o <<StrRank(row.LOCATION_NAME), StrRank(row.INDICATOR_NAME)>>
    ELSE PeriodKey(row) \o <<StrRank(row.INDICATOR_NAME)>>

\* Lexicographic order of two keys of the same length.
RECURSIVE KeyLess(_, _)
KeyLess(a, b) ==
    IF a = <<>> THEN FALSE
    ELSE IF Head(a) # Head(b) THEN Head(a) < Head(b)
    ELSE KeyLess(Tail(a), Tail(b))

\* Every order of the rows R that is ascending in key: rows that tie under
\* the ORDER BY come back in any order.
RECURSIVE Orderings(_, _)
Orderings(text, R) ==
    IF R = {} THEN {<<>>}
    ELSE UNION {{<<m>> \o s : s \in Orderings(text, R \ {m})} :
                  m \in {x \in R : \A y \in R :
                            ~KeyLess(OrderKey(text, y), OrderKey(text, x))}}

-----------------------------------------------------------------------------
(* execute_query (database.py:49-85).                                      *)

EmptyDataFrame == [columns |-> <<>>, rows |-> <<>>]

required_cols == <<"TIME_PERIOD", "LOCATION_NAME", "INDICATOR_NAME", "VALUE">>

\* Mutant of HasRequiredCols: the columns are exactly the required ones.
HasRequiredCols_Exact(columns) == Range(columns) = Range(required_cols)

\* all(col in df.columns for col in required_cols)
HasRequiredCols(columns) == \A c \in Range(required_cols) : Has(columns, c)

\* Ascending sequence of a set of strings / of (period key, location) pairs.
RECURSIVE SortNames(_)
SortNames(S) ==
    IF S = {} THEN <<>>
    ELSE LET m == CHOOSE x \in S : \A y \in S : StrRank(x) <= StrRank(y)
         IN  <<m>> \o SortNames(S \ {m})

PairKey(p) == p.key \o <<StrRank(p.LOCATION_NAME)>>

RECURSIVE SortPairs(_)
SortPairs(S) ==
    IF S = {} THEN <<>>
    ELSE LET m == CHOOSE x \in S : \A y \in S : ~KeyLess(PairKey(y), PairKey(x))
         IN  <<m>> \o SortPairs(S \ {m})

\* Mutant of First: the last value wins.
First_Last(rows, tp, loc, ind) ==
    LET I == {i \in DOMAIN rows :
                /\ PeriodKey(rows[i]) = tp
                /\ rows[i].LOCATION_NAME = loc
                /\ rows[i].INDICATOR_NAME = ind
                /\ rows[i].VALUE # None}
    IN  IF I = {} THEN None
        ELSE rows[CHOOSE i \in I : \A k \in I : i >= k].VALUE

\* aggfunc='first': the first non-null VALUE, in row order, of the rows of
\* one (TIME_PERIOD, LOCATION_NAME, INDICATOR_NAME); None when all are null.
First(rows, tp, loc, ind) ==
    LET I == {i \in DOMAIN rows :
                /\ PeriodKey(rows[i]) = tp
                /\ rows[i].LOCATION_NAME = loc
                /\ rows[i].INDICATOR_NAME = ind
                /\ rows[i].VALUE # None}
    IN  IF I = {} THEN None
        ELSE rows[CHOOSE i \in I : \A k \in I : i <= k].VALUE

\* df.pivot_table(index=[TIME_PERIOD, LOCATION_NAME], columns=INDICATOR_NAME,
\*                values=VALUE, aggfunc='first').reset_index()
\* Every other column is dropped; with pandas' dropna=True a (pair,
\* indicator) whose values are all null is dropped before unstacking, and
\* with it a pair or an indicator that has nothing else.
pivot_table(rows) ==
    LET cells == {[key |-> PeriodKey(rows[i]), TIME_PERIOD |-> rows[i].TIME_PERIOD,
                   LOCATION_NAME |-> rows[i].LOCATION_NAME,
                   INDICATOR_NAME |-> rows[i].INDICATOR_NAME] :
                     i \in {k \in DOMAIN rows : rows[k].VALUE # None}}
        inds == SortNames({c.INDICATOR_NAME : c \in cells})
        pairs == SortPairs({[key |-> c.key, TIME_PERIOD |-> c.TIME_PERIOD,
                             LOCATION_NAME |-> c.LOCATION_NAME] : c \in cells})
        cols == <<"TIME_PERIOD", "LOCATION_NAME">> \o inds
    IN  [columns |-> cols,
         rows |-> [n \in DOMAIN pairs |->
                     [c \in Range(cols) |->
                        IF c = "TIME_PERIOD" THEN pairs[n].TIME_PERIOD
                        ELSE IF c = "LOCATION_NAME" THEN pairs[n].LOCATION_NAME
                        ELSE First(rows, pairs[n].key, pairs[n].LOCATION_NAME, c)]]]

\* The reshaping step of execute_query: pivot when wide_format is set, the
\* frame is not empty and the four required columns are among its columns.
PivotApplied(columns, rows, wide_format) ==
    wide_format /\ rows # <<>> /\ HasRequiredCols(columns)
Reshape(columns, rows, wide_format) ==
    IF PivotApplied(columns, rows, wide_format)
    THEN pivot_table(rows)
    ELSE [columns |-> columns, rows |-> rows]

InvalidDataGroup == "Invalid data_group. Use 'CPI' or 'BOP'"
QueryError == "Query error"

\* What can fail in a call: getting a cursor from the connection, executing
\* the statement, fetching its rows, reshaping them.
Faults == {"none", "cursor", "execute", "fetch", "reshape"}

\* The message of the exception a failure raises.
ExceptionMessage ==
    [f \in Faults \ {"none"} |->
        IF f = "cursor" THEN "DPY-1001: not connected to database"
        ELSE IF f = "execute" THEN "ORA-01031: insufficient privileges"
        ELSE IF f = "fetch" THEN "DPY-4011: the database or network closed the connection"
        ELSE "MemoryError"]
BadStatement == "ORA-00900: invalid SQL statement"

\* What Oracle raises on a statement it rejects.  The statement of an
\* aggregation value that get_data does not know is the annual SELECT, whose
\* VALUE is an aggregate, followed by the monthly ORDER BY and no GROUP BY:
\* Oracle refuses it (an engine that tolerates bare columns beside an
\* aggregate, such as SQLite, would run it).
Rejection(text) ==
    IF Len(text) >= 1 /\ text[1] \in Heads \ {SELECT_MONTHLY}
          /\ text[Len(text)] = ORDER_MONTHLY
    THEN "ORA-00937: not a single-group group function"
    ELSE BadStatement

\* Mutant of Caught: the message of the exception is not reported.
Caught_Mute(message, ops) ==
    [errors |-> <<QueryError>>, result |-> EmptyDataFrame,
     fetched |-> EmptyDataFrame, ops |-> ops]

\* except Exception as e: st.error(f"Query error: {e}"); return pd.DataFrame()
Caught(message, ops) ==
    [errors |-> <<QueryError \o ": " \o message>>, result |-> EmptyDataFrame,
     fetched |-> EmptyDataFrame, ops |-> ops]

\* execute_query on warehouse content F: the possible outcomes (reported
\* errors, returned DataFrame, DataFrame as fetched, cursor operations).
\* cursor.execute raises on a statement the warehouse rejects; whatever is
\* raised inside the try block is reported and an empty DataFrame returned.
execute_query(text, P, wide_format, F) ==
    IF fault = "execute" THEN {Caught(ExceptionMessage["execute"], <<"execute">>)}
    ELSE IF ~StatementOK(text, P) THEN {Caught(Rejection(text), <<"execute">>)}
    ELSE IF fault = "fetch"
    THEN {Caught(ExceptionMessage["fetch"], <<"execute", "fetchall">>)}
    ELSE {IF fault = "reshape" /\ PivotApplied(Description(text), rows, wide_format)
          THEN Caught(ExceptionMessage["reshape"], <<"execute", "fetchall">>)
          ELSE [errors |-> <<>>,
                result |-> Reshape(Description(text), rows, wide_format),
                fetched |-> [columns |-> Description(text), rows |-> rows],
                ops |-> <<"execute", "fetchall">>] :
            rows \in Orderings(text, ResultRows(text, P, F))}

-----------------------------------------------------------------------------
(* get_data (database.py:88-315).                                          *)

\* The call lets an exception through: nothing is built, run or returned.
Propagated(message) ==
    [query |-> <<>>, params |-> {}, executed |-> <<>>, errors |-> <<>>,
     result |-> EmptyDataFrame, fetched |-> EmptyDataFrame,
     cursor |-> "none", cursor_ops |-> <<>>, raised |-> Some(message)]

\* Mutant of Ran: a statement that failed is executed a second time.
Ran_Retry(text, P, o) ==
    [query |-> text, params |-> P,
     executed |-> IF o.errors = <<>> THEN <<text>> ELSE <<text, text>>,
     errors |-> o.errors, result |-> o.result, fetched |-> o.fetched,
     cursor |-> "closed",
     cursor_ops |-> <<"cursor">> \o o.ops \o
                    (IF o.errors = <<>> THEN <<>> ELSE <<"execute">>) \o <<"close">>,
     raised |-> None]

\* The call runs its statement through execute_query and closes its cursor.
Ran(text, P, o) ==
    [query |-> text, params |-> P, executed |-> <<text>>,
     errors |-> o.errors, result |-> o.result, fetched |-> o.fetched,
     cursor |-> "closed", cursor_ops |-> <<"cursor">> \o o.ops \o <<"close">>,
     raised |-> None]

\* Mutant of get_data_outcome: an unknown data_group falls back to BOP.
get_data_outcome_Fallback(r, F) ==
    LET d == IF r.data_group \in DOMAIN map_table THEN r
             ELSE [r EXCEPT !.data_group = "BOP"]
        text == BuildText(d)
        P == BuildParams(d)
    IN  {Ran(text, P, o) : o \in execute_query(text, P, r.wide_format, F)}

\* Mutant of get_data_outcome: the cursor is left open when the data_group
\* is rejected.
get_data_outcome_Leak(r, F) ==
    IF r.data_group \notin DOMAIN map_table
    THEN {[query |-> <<>>, params |-> {}, executed |-> <<>>,
           errors |-> <<InvalidDataGroup>>, result |-> EmptyDataFrame,
           fetched |-> EmptyDataFrame, cursor |-> "open",
           cursor_ops |-> <<"cursor">>, raised |-> None]}
    ELSE LET text == BuildText(r)
             P == BuildParams(r)
         IN  {Ran(text, P, o) : o \in execute_query(text, P, r.wide_format, F)}

\* What one call of get_data with arguments r can do on warehouse content F:
\* the SQL text and parameters it builds, the statements it executes, the
\* errors it reports, the DataFrame it returns, what it does to its cursor
\* and the exception it lets through.  connection.cursor() is outside any
\* try block; everything execute_query raises is caught there.
get_data_outcome(r, F) ==
    IF fault = "cursor" THEN {Propagated(ExceptionMessage["cursor"])}
    ELSE IF r.data_group \notin DOMAIN map_table
    THEN {[query |-> <<>>, params |-> {}, executed |-> <<>>,
           errors |-> <<InvalidDataGroup>>, result |-> EmptyDataFrame,
           fetched |-> EmptyDataFrame, cursor |-> "closed",
           cursor_ops |-> <<"cursor", "close">>, raised |-> None]}
    ELSE LET text == BuildText(r)
             P == BuildParams(r)
         IN  {Ran(text, P, o) : o \in execute_query(text, P, r.wide_format, F)}

\* The call of get_data as one step.
get_data(r) ==
    /\ request' = Some(r)
    /\ facts' = facts
    /\ fault' = fault
    /\ UNCHANGED <<has_section, data_cache, lookup, calls>>
    /\ UNCHANGED sessionVars
    /\ \E o \in get_data_outcome(r, facts) :
          /\ query' = o.query
          /\ params' = o.params
          /\ executed' = o.executed
          /\ cursor' = o.cursor
          /\ errors' = o.errors
          /\ result' = o.result
          /\ fetched' = o.fetched
          /\ cursor_ops' = o.cursor_ops
          /\ raised' = o.raised

-----------------------------------------------------------------------------
(* Bounds and the inputs drawn within them.                                *)

BaseYear == 2021     \* the first year of the requested ranges
MaxFacts == 3        \* rows of the series loaded in the aggregation runs
MaxNames == 2        \* length of an indicator_names list
MaxUnits == 1        \* length of a unit_names list
MaxRows == 3         \* fact rows of the warehouse in the filter runs
MaxTuple == 2        \* length of the indicator tuple of a units lookup
MaxCalls == 2        \* reference lookups in one run
MaxSessions == 2     \* browser sessions of one server

Values == {5, 10}
Locations == {"Tanzania", "Kenya"}
Units == {"USD Million", "TZS Million"}
Indicators == DOMAIN DIM_INDICATOR
Aggregations == {"monthly", "quarterly", "annual", "fiscal_year"}

\* The subsets of U with at most k elements.
RECURSIVE SubsetsUpTo(_, _)
SubsetsUpTo(U, k) ==
    IF k = 0 THEN {{}}
    ELSE LET T == SubsetsUpTo(U, k - 1) IN T \cup {S \cup {x} : S \in T, x \in U}

\* The sequences over U of length at most k.
RECURSIVE SeqsUpTo(_, _)
SeqsUpTo(U, k) ==
    IF k = 0 THEN {<<>>}
    ELSE LET T == SeqsUpTo(U, k - 1) IN T \cup {Append(q, x) : q \in T, x \in U}

Fact(table, year, month, loc, ind, unit, value) ==
    [table |-> table, YEAR |-> year, MONTH |-> month, LOCATION_NAME |-> loc,
     INDICATOR_NAME |-> ind, UNIT |-> unit, VALUE |-> value]

\* No two fact rows of a table share time, location, indicator and unit.
KeyOf(f) == <<f.table, f.YEAR, f.MONTH, f.LOCATION_NAME, f.INDICATOR_NAME, f.UNIT>>
UniqueKeys(F) == \A f, g \in F : KeyOf(f) = KeyOf(g) => f = g

\* Rows that are in every warehouse of the aggregation runs: another
\* location, another unit, no unit, no value, and months just outside the
\* fiscal window of BaseYear.
BaseFacts ==
    {Fact("FACT_BOP", BaseYear, 3, "Kenya", "Exports", Some("USD Million"), Some(7)),
     Fact("FACT_BOP", BaseYear, 2, "Tanzania", "Exports", Some("TZS Million"), Some(3)),
     Fact("FACT_BOP", BaseYear - 1, 6, "Tanzania", "Reserves", Some("USD Million"), Some(9)),
     Fact("FACT_CPI", BaseYear + 1, 7, "Tanzania", "Index", None, Some(100)),
     Fact("FACT_CPI", BaseYear, 12, "Tanzania", "Index", None, None)}

\* The months a series may be observed in.
SeriesPeriods ==
    {<<BaseYear - 1, 7>>, <<BaseYear, 1>>, <<BaseYear, 2>>, <<BaseYear, 3>>,
     <<BaseYear, 6>>, <<BaseYear, 8>>, <<BaseYear, 12>>,
     <<BaseYear + 1, 3>>, <<BaseYear + 1, 6>>}

\* One series: an indicator of Tanzania in USD, observed in the months M
\* with values v, loaded into fact table t on top of BaseFacts.
SeriesWarehouse(t, i, M, v) ==
    BaseFacts \cup
    {Fact(t, p[1], p[2], "Tanzania", i, Some("USD Million"), Some(v[p])) : p \in M}

Request(dg, sy, ey, sm, em, loc, inds, units, agg, wide) ==
    [data_group |-> dg, start_year |-> sy, end_year |-> ey,
     start_month |-> sm, end_month |-> em, location |-> loc,
     indicator_names |-> inds, unit_names |-> units,
     aggregation |-> agg, wide_format |-> wide]

NameLists(U, k) ==
    {None} \cup {Some(q) : q \in SeqsUpTo(U, k)} \cup {Str(s) : s \in U \cup {""}}
MonthPairs ==
    {<<None, None>>, <<Some(1), Some(6)>>, <<Some(6), None>>, <<Some(6), Some(3)>>}
YearPairs ==
    {<<BaseYear, BaseYear>>, <<BaseYear, BaseYear + 1>>, <<BaseYear + 1, BaseYear>>,
     <<BaseYear + 2, BaseYear>>}

\* The warehouse of the builder runs.
SampleFacts ==
    BaseFacts \cup
    {Fact("FACT_BOP", BaseYear, 1, "Tanzania", "Exports", Some("USD Million"), Some(5)),
     Fact("FACT_BOP", BaseYear, 2, "Tanzania", "Exports", Some("USD Million"), Some(10)),
     Fact("FACT_BOP", BaseYear, 3, "Tanzania", "Reserves", Some("USD Million"), Some(10)),
     Fact("FACT_CPI", BaseYear, 6, "Tanzania", "Index", None, Some(5))}

\* Warehouses of the filter runs: at most MaxRows rows of FACT_BOP for
\* Tanzania, over a quarter-end month and the month after it, two
\* indicators, and a unit or none.
FilterUniverse ==
    {Fact("FACT_BOP", BaseYear, m, "Tanzania", i, u, Some(v)) :
        m \in {3, 4}, i \in {"Exports", "Reserves"},
        u \in {None, Some("USD Million")}, v \in Values}
FilterWarehouses == {F \in SubsetsUpTo(FilterUniverse, MaxRows) : UniqueKeys(F)}

-----------------------------------------------------------------------------
(* The reference lookups (database.py:318-447), each behind st.cache_data. *)

\* How the warehouse access of a lookup can fail: not at all, every
\* statement, or only the first statement of a call.
LookupFaults == {"none", "execute", "once"}

\* DIM_INDICATOR.SECTION, where the column exists.
DIM_SECTION ==
    [i \in {"Exports", "Index", "Reserves"} |->
        IF i = "Exports" THEN Some("BOP")
        ELSE IF i = "Index" THEN Some("cpi")
        ELSE None]

UNITS_QUERY == "SELECT DISTINCT UNIT FROM DIM_UNITS ORDER BY UNIT"
LOCATIONS_QUERY == "SELECT DISTINCT LOCATION_NAME FROM DIM_LOCATION ORDER BY LOCATION_NAME"
UNITS_FOR_SELECT == "SELECT DISTINCT u.UNIT FROM "
UNITS_FOR_WHERE ==
    " f JOIN DIM_INDICATOR i ON f.INDICATOR_ID = i.INDICATOR_ID LEFT JOIN DIM_UNITS u ON f.UNIT_ID = u.UNIT_ID WHERE i.INDICATOR_NAME IN ("
UNITS_FOR_TAIL == ") AND u.UNIT IS NOT NULL ORDER BY u.UNIT"
INDICATORS_ALL ==
    "SELECT INDICATOR_NAME, DESCRIPTION, CASE WHEN EXISTS (SELECT 1 FROM USER_TAB_COLUMNS WHERE TABLE_NAME = 'DIM_INDICATOR' AND COLUMN_NAME = 'SECTION') THEN SECTION ELSE INDICATOR_TYPE END as SECTION FROM DIM_INDICATOR ORDER BY INDICATOR_NAME"
INDICATORS_OF_SECTION ==
    "SELECT INDICATOR_NAME, DESCRIPTION, SECTION FROM DIM_INDICATOR WHERE (UPPER(SECTION) = UPPER(:section) OR (SECTION IS NULL AND UPPER(INDICATOR_TYPE) = UPPER(:section))) ORDER BY INDICATOR_NAME"
FALLBACK_ALL == "SELECT INDICATOR_NAME, DESCRIPTION FROM DIM_INDICATOR ORDER BY INDICATOR_NAME"
FALLBACK_OF_SECTION ==
    "SELECT INDICATOR_NAME, DESCRIPTION FROM DIM_INDICATOR WHERE UPPER(SECTION) = UPPER(:section) ORDER BY INDICATOR_NAME"

\* Python truthiness of an optional string.
TruthyStr(o) == o # None /\ Get(o) # ""

\* What a lookup did: the statements it sent, its cursor operations, what it
\* returned.  No lookup lets an exception through.
Did(statements, ops, value) ==
    [statements |-> statements, cursor_ops |-> ops, result |-> value, raised |-> None]

\* Whether the n-th statement of a call fails for a reason of the access.
\* With fault = "cursor" the connection is closed: connection.cursor()
\* raises, in pd.read_sql as well, before any statement is sent.
AccessFails(n) == fault = "execute" \/ (fault = "once" /\ n = 1)

\* The connection a lookup is given: to the warehouse of the model, or to
\* another warehouse (another host, another user's schema) whose tables
\* hold only part of these rows.
Connections == {"main", "other"}
UnitsThrough(_connection) ==
    IF _connection = "main" THEN Units ELSE {"USD Million"}
LocationsThrough(_connection) ==
    IF _connection = "main" THEN Locations ELSE {"Kenya"}
IndicatorsThrough(_connection) ==
    IF _connection = "main" THEN DOMAIN DIM_INDICATOR ELSE {"Index"}
FactsThrough(_connection) ==
    {f \in facts : f.INDICATOR_NAME \in IndicatorsThrough(_connection)
                     /\ f.LOCATION_NAME \in LocationsThrough(_connection)}

\* Mutant of get_units_body: a failure of the access is let through.
get_units_body_Raising(_connection) ==
    IF AccessFails(1)
    THEN [Did(<<UNITS_QUERY>>, <<>>, <<>>) EXCEPT !.raised = Some("DatabaseError")]
    ELSE Did(<<UNITS_QUERY>>, <<>>, SortNames(UnitsThrough(_connection)))

\* get_units: the units of DIM_UNITS in order, [] on any failure.
get_units_body(_connection) ==
    IF fault = "cursor" THEN Did(<<>>, <<>>, <<>>)
    ELSE IF AccessFails(1) THEN Did(<<UNITS_QUERY>>, <<>>, <<>>)
    ELSE Did(<<UNITS_QUERY>>, <<>>, SortNames(UnitsThrough(_connection)))

\* get_locations: the locations of DIM_LOCATION in order, [] on any failure.
get_locations_body(_connection) ==
    IF fault = "cursor" THEN Did(<<>>, <<>>, <<>>)
    ELSE IF AccessFails(1) THEN Did(<<LOCATIONS_QUERY>>, <<>>, <<>>)
    ELSE Did(<<LOCATIONS_QUERY>>, <<>>, SortNames(LocationsThrough(_connection)))

\* Mutant of NoIndicators: only an omitted tuple counts as empty.
NoIndicators_OnlyNone(indicator_names) == indicator_names = None

\* if not indicator_names
NoIndicators(indicator_names) ==
    indicator_names = None \/ Len(Get(indicator_names)) = 0

\* get_units_for_indicators: the units of the facts of the named indicators
\* in the fact table of indicator_type, [] for no indicators and on failure.
get_units_for_indicators_body(_connection, indicator_names, indicator_type) ==
    IF NoIndicators(indicator_names) THEN Did(<<>>, <<>>, <<>>)
    ELSE
    LET names == Get(indicator_names)
        fact_table == IF indicator_type = "CPI" THEN "FACT_CPI" ELSE "FACT_BOP"
        text == <<UNITS_FOR_SELECT, fact_table, UNITS_FOR_WHERE>>
                    \o Placeholders("ind", Len(names)) \o <<UNITS_FOR_TAIL>>
        found == {Get(f.UNIT) : f \in {g \in FactsThrough(_connection) :
                                          /\ g.table = fact_table
                                          /\ g.INDICATOR_NAME \in Range(names)
                                          /\ g.UNIT # None}}
    IN  IF fault = "cursor" THEN Did(<<>>, <<>>, <<>>)
        ELSE IF AccessFails(1) THEN Did(<<text>>, <<"cursor", "execute">>, <<>>)
        ELSE Did(<<text>>, <<"cursor", "execute", "fetchall", "close">>,
                 SortNames(found))

\* The rows of DIM_INDICATOR that a statement of get_indicators selects.
IndicatorRows(_connection, statement, section) ==
    LET keep == {i \in IndicatorsThrough(_connection) :
                    IF statement = INDICATORS_OF_SECTION
                    THEN \/ (DIM_SECTION[i] # None
                                /\ UPPER(Get(DIM_SECTION[i])) = UPPER(Get(section)))
                         \/ (DIM_SECTION[i] = None
                                /\ UPPER(DIM_INDICATOR[i].INDICATOR_TYPE) = UPPER(Get(section)))
                    ELSE IF statement = FALLBACK_OF_SECTION
                    THEN DIM_SECTION[i] # None
                            /\ UPPER(Get(DIM_SECTION[i])) = UPPER(Get(section))
                    ELSE TRUE}
        names == SortNames(keep)
    IN  IF statement \in {INDICATORS_ALL, INDICATORS_OF_SECTION}
        THEN [columns |-> <<"INDICATOR_NAME", "DESCRIPTION", "SECTION">>,
              rows |-> [n \in DOMAIN names |->
                          [INDICATOR_NAME |-> names[n],
                           DESCRIPTION |-> DIM_INDICATOR[names[n]].DESCRIPTION,
                           SECTION |-> DIM_SECTION[names[n]]]]]
        ELSE [columns |-> <<"INDICATOR_NAME", "DESCRIPTION">>,
              rows |-> [n \in DOMAIN names |->
                          [INDICATOR_NAME |-> names[n],
                           DESCRIPTION |-> DIM_INDICATOR[names[n]].DESCRIPTION]]]

\* Whether the warehouse rejects a statement: one that names the SECTION
\* column when DIM_INDICATOR has none.
Rejected(statement) == ~has_section /\ statement # FALLBACK_ALL

\* The statement of the except branch of get_indicators.
FallbackStatement(section) ==
    IF TruthyStr(section) THEN FALLBACK_OF_SECTION ELSE FALLBACK_ALL

\* get_indicators: the section query, on failure the fallback query, on its
\* failure an empty DataFrame.
get_indicators_body(_connection, section) ==
    LET first == IF TruthyStr(section) THEN INDICATORS_OF_SECTION ELSE INDICATORS_ALL
        second == FallbackStatement(section)
    IN  IF fault = "cursor" THEN Did(<<>>, <<>>, EmptyDataFrame)
        ELSE IF ~(AccessFails(1) \/ Rejected(first))
        THEN Did(<<first>>, <<>>, IndicatorRows(_connection, first, section))
        ELSE IF ~(AccessFails(2) \/ Rejected(second))
        THEN Did(<<first, second>>, <<>>, IndicatorRows(_connection, second, section))
        ELSE Did(<<first, second>>, <<>>, EmptyDataFrame)

\* st.cache_data: a call whose key is cached returns the cached value without
\* running the function; otherwise the function runs and its return is cached.
\* The connection argument (_connection) is not part of the key.
Cached(key) == \E e \in data_cache : e[1] = key
CachedValue(key) == (CHOOSE e \in data_cache : e[1] = key)[2]
Lookup(fn, _connection, args, body) ==
    /\ calls < MaxCalls
    /\ calls' = calls + 1
    /\ LET key == <<fn>> \o args IN
       IF Cached(key)
       THEN /\ lookup' = Some([fn |-> fn, connection |-> _connection, args |-> args,
                               during |-> fault, hit |-> TRUE,
                               did |-> Did(<<>>, <<>>, CachedValue(key))])
            /\ data_cache' = data_cache
       ELSE /\ lookup' = Some([fn |-> fn, connection |-> _connection, args |-> args,
                               during |-> fault, hit |-> FALSE, did |-> body])
            /\ data_cache' = data_cache \cup {<<key, body.result>>}
    /\ UNCHANGED <<facts, request, query, params, executed, cursor, errors, result,
                   fault, fetched, cursor_ops, raised, has_section>>
    /\ UNCHANGED sessionVars

get_units(_connection) ==
    Lookup("get_units", _connection, <<>>, get_units_body(_connection))
get_locations(_connection) ==
    Lookup("get_locations", _connection, <<>>, get_locations_body(_connection))
get_units_for_indicators(_connection, indicator_names, indicator_type) ==
    Lookup("get_units_for_indicators", _connection, <<indicator_names, indicator_type>>,
           get_units_for_indicators_body(_connection, indicator_names, indicator_type))
get_indicators(_connection, section) ==
    Lookup("get_indicators", _connection, <<section>>,
           get_indicators_body(_connection, section))

\* test_connection (not cached): SELECT SYSDATE FROM DUAL through a cursor
\* of the connection; whatever is raised is turned into a failure message.
SYSDATE_QUERY == "SELECT SYSDATE FROM DUAL"
test_connection_body ==
    IF fault = "cursor"
    THEN Did(<<>>, <<>>,
             [success |-> FALSE,
              message |-> "Connection failed: " \o ExceptionMessage["cursor"],
              timestamp |-> None])
    ELSE IF AccessFails(1)
    THEN Did(<<SYSDATE_QUERY>>, <<"cursor", "execute">>,
             [success |-> FALSE,
              message |-> "Connection failed: " \o ExceptionMessage["execute"],
              timestamp |-> None])
    ELSE Did(<<SYSDATE_QUERY>>, <<"cursor", "execute", "fetchone", "close">>,
             [success |-> TRUE, message |-> "Connection active",
              timestamp |-> Some("2021-06-30 12:00:00")])
test_connection(connection) ==
    /\ calls < MaxCalls
    /\ calls' = calls + 1
    /\ lookup' = Some([fn |-> "test_connection", connection |-> connection,
                       args |-> <<>>, during |-> fault, hit |-> FALSE,
                       did |-> test_connection_body])
    /\ UNCHANGED <<facts, request, query, params, executed, cursor, errors, result,
                   fault, fetched, cursor_ops, raised, has_section, data_cache>>
    /\ UNCHANGED sessionVars

\* The warehouse access works again after a failure.
Recover ==
    /\ fault # "none"
    /\ fault' = "none"
    /\ UNCHANGED <<facts, request, query, params, executed, cursor, errors, result,
                   fetched, cursor_ops, raised, has_section, data_cache, lookup, calls>>
    /\ UNCHANGED sessionVars

\* The ttl of a cached return runs out.
CacheExpire ==
    /\ \E e \in data_cache : data_cache' = data_cache \ {e}
    /\ UNCHANGED <<facts, request, query, params, executed, cursor, errors, result,
                   fault, fetched, cursor_ops, raised, has_section, lookup, calls>>
    /\ UNCHANGED sessionVars

-----------------------------------------------------------------------------
(* Connection acquisition and the login page (database.py:10-45,           *)
(* app.py:542-608 and 1438-1447).                                          *)

Sessions == 1..MaxSessions

\* The fields of the login form; host, port and service name keep the
\* values the form proposes.
Usernames == {"analyst"}
Passwords == {"", "secret", "wrong"}
HOST == "172.16.1.219"
PORT == "1522"
SERVICE_NAME == "BOT6DB"

\* What oracledb.connect does with the arguments: it returns a connection,
\* or raises an oracledb.Error (logon denied, listener unreachable), or
\* something else goes wrong inside the try block.
DriverOutcomes(password) ==
    (IF password = "secret"
     THEN {[kind |-> "ok", message |-> ""]}
     ELSE {[kind |-> "oracledb.Error",
            message |-> "ORA-01017: invalid username/password; logon denied"]})
    \cup {[kind |-> "oracledb.Error",
           message |-> "DPY-6005: cannot connect to database"],
          [kind |-> "Exception", message |-> "RuntimeError"]}

\* The two emoji that open the printed lines, U+2705 and U+274C.  A TLA+
\* string holds ASCII only, so each is written as its escaped code point.
CHECK_MARK == "\\u2705"
CROSS_MARK == "\\u274c"

\* What get_oracle_connection prints on the server console.
Printed(outcome) ==
    IF outcome.kind = "ok"
    THEN CHECK_MARK \o " Successfully connected to "
             \o HOST \o ":" \o PORT \o "/" \o SERVICE_NAME
    ELSE IF outcome.kind = "oracledb.Error"
    THEN CROSS_MARK \o " Oracle connection error: " \o outcome.message
    ELSE CROSS_MARK \o " Unexpected error: " \o outcome.message

\* The body of get_oracle_connection: the new connection, or None after
\* either except branch has printed the message.  Nothing is raised.
connect(outcome) ==
    [returned |-> IF outcome.kind = "ok" THEN Some(Len(connections) + 1) ELSE None,
     raised   |-> None,
     printed  |-> <<Printed(outcome)>>]

\* st.cache_resource: keyed by the arguments, for all sessions of the
\* server, without expiry; a cached return is handed out as the same object.
ResourceCached(args) == \E e \in resource_cache : e[1] = args
ResourceValue(args) == (CHOOSE e \in resource_cache : e[1] = args)[2]

get_oracle_connection(args, outcome) ==
    IF ResourceCached(args)
    THEN [hit |-> TRUE, driver |-> None,
          did |-> [returned |-> ResourceValue(args), raised |-> None, printed |-> <<>>]]
    ELSE [hit |-> FALSE, driver |-> Some(outcome), did |-> connect(outcome)]

NotConnected == [connected |-> FALSE, conn |-> None]

\* The submitted login form of one session (app.py:584-605).
Login(s, username, password, outcome) ==
    /\ ~session_state[s].connected
    /\ IF username # "" /\ password # ""
       THEN LET args == <<username, password, HOST, PORT, SERVICE_NAME>>
                call == get_oracle_connection(args, outcome)
            IN /\ login' = Some([session |-> s, args |-> args, hit |-> call.hit,
                                 driver |-> call.driver, did |-> call.did])
               /\ resource_cache' =
                    IF call.hit \/ call.did.raised # None THEN resource_cache
                    ELSE resource_cache \cup {<<args, call.did.returned>>}
               /\ connections' =
                    IF ~call.hit /\ call.did.returned # None
                    THEN Append(connections, "open") ELSE connections
               /\ IF call.did.raised # None
                  THEN /\ notice' = [notice EXCEPT ![s] =
                                        Some("Connection error: " \o Get(call.did.raised))]
                       /\ session_state' = session_state
                  ELSE IF call.did.returned # None
                  THEN /\ session_state' = [session_state EXCEPT ![s] =
                                [connected |-> TRUE, conn |-> call.did.returned]]
                       /\ notice' = [notice EXCEPT ![s] =
                                        Some("Connected successfully! Redirecting...")]
                  ELSE /\ notice' = [notice EXCEPT ![s] =
                            Some("Connection failed. Please verify your credentials.")]
                       /\ session_state' = session_state
       ELSE /\ notice' = [notice EXCEPT ![s] = Some("Please fill in all required fields.")]
            /\ UNCHANGED <<resource_cache, connections, session_state, login>>
    /\ page' = page
    /\ UNCHANGED queryVars

\* The Disconnect button of one session (app.py:1438-1447): close() on a
\* connection that is already closed raises, which the page shows as a
\* warning; the session forgets the connection either way.
Disconnect(s) ==
    /\ session_state[s].connected
    /\ LET h == Get(session_state[s].conn) IN
       IF connections[h] = "open"
       THEN /\ connections' = [connections EXCEPT ![h] = "closed"]
            /\ notice' = [notice EXCEPT ![s] = Some("Disconnected successfully")]
       ELSE /\ connections' = connections
            /\ notice' = [notice EXCEPT ![s] =
                  Some("Disconnect warning: DPY-1001: not connected to database")]
    /\ session_state' = [session_state EXCEPT ![s] = NotConnected]
    /\ UNCHANGED <<resource_cache, login, page>>
    /\ UNCHANGED queryVars

-----------------------------------------------------------------------------
(* The BOP tab and the Raw SQL tab of the page (app.py:622-626, 826-886,   *)
(* 901-1167, 1209-1235, 1241-1272).                                        *)

Date(year, month, day) == [year |-> year, month |-> month, day |-> day]

\* What the widgets of the filter panel return in one run of the script: the
\* checkbox, the two date inputs, the two number inputs, the two select
\* boxes and the two multiselects.
Widgets(use_range, start_dt, end_dt, from_year, to_year, location, aggregation, indicators, units) ==
    [use_range |-> use_range, start_dt |-> start_dt, end_dt |-> end_dt,
     from_year |-> from_year, to_year |-> to_year, location |-> location,
     aggregation |-> aggregation, selected_indicators |-> indicators,
     selected_units |-> units]

\* One message of the page: st.caption, st.info, st.warning, st.error or
\* st.success with its text.
Shown(kind, text) == [kind |-> kind, text |-> text]

\* One call of a cached lookup from the page: on a hit the cached value
\* without running the function, otherwise what the function does.
Through(fn, _connection, args, body) ==
    LET key == <<fn>> \o args IN
    [fn |-> fn, connection |-> _connection, args |-> args, during |-> fault,
     hit |-> Cached(key),
     did |-> IF Cached(key) THEN Did(<<>>, <<>>, CachedValue(key)) ELSE body]

\* The metadata SELECT of the panel (app.py:1056-1091, ordered by indicator
\* and location) and of the Excel export (app.py:832-880, ordered by
\* indicator): cursor = conn.cursor(); cursor.execute(query, params);
\* cursor.fetchall(); cursor.close(), all inside one try block.  The
\* statement sent, what is done to the cursor, the distinct rows found and
\* the exception that ends the block early; close() is reached only when
\* nothing was raised.  The statement names i.SECTION, which the warehouse
\* rejects when DIM_INDICATOR has no such column.
metadata_query(conn, indicator_type, selected_indicators, selected_units, order) ==
    LET fact_table == IF indicator_type = "CPI" THEN "FACT_CPI" ELSE "FACT_BOP"
        text == <<"SELECT DISTINCT i.INDICATOR_NAME, i.DESCRIPTION, i.INDICATOR_TYPE, i.SECTION, u.UNIT, l.LOCATION_NAME, s.SOURCE FROM ",
                  fact_table,
                  " f JOIN DIM_INDICATOR i ON f.INDICATOR_ID = i.INDICATOR_ID LEFT JOIN DIM_UNITS u ON f.UNIT_ID = u.UNIT_ID JOIN DIM_LOCATION l ON f.LOCATION_ID = l.LOCATION_ID LEFT JOIN DIM_SOURCES s ON f.SOURCE_ID = s.SOURCE_ID WHERE i.INDICATOR_NAME IN (">>
                    \o Placeholders("ind", Len(selected_indicators)) \o <<CLOSE_PAREN>>
                    \o (IF selected_units # <<>>
                        THEN <<"AND u.UNIT IN (">>
                                \o Placeholders("unit", Len(selected_units))
                                \o <<CLOSE_PAREN>>
                        ELSE <<>>)
                    \o <<IF order = "panel"
                          THEN "ORDER BY i.INDICATOR_NAME, l.LOCATION_NAME"
                          ELSE "ORDER BY i.INDICATOR_NAME">>
        P == {<<"ind" \o ToString(i - 1), selected_indicators[i]>> :
                 i \in DOMAIN selected_indicators}
             \cup {<<"unit" \o ToString(i - 1), selected_units[i]>> :
                      i \in DOMAIN selected_units}
        sent == <<[text |-> text, params |-> P]>>
        found == {[INDICATOR_NAME |-> f.INDICATOR_NAME, UNIT |-> f.UNIT,
                   LOCATION_NAME |-> f.LOCATION_NAME] :
                     f \in {g \in FactsThrough(conn) :
                              /\ g.table = fact_table
                              /\ g.INDICATOR_NAME \in Range(selected_indicators)
                              /\ (selected_units # <<>> =>
                                    (g.UNIT # None
                                       /\ Get(g.UNIT) \in Range(selected_units)))}}
    IN  IF fault = "cursor"
        THEN [statements |-> <<>>, cursor_ops |-> <<>>, rows |-> {},
              raised |-> Some(ExceptionMessage["cursor"])]
        ELSE IF AccessFails(1)
        THEN [statements |-> sent, cursor_ops |-> <<"cursor", "execute">>, rows |-> {},
              raised |-> Some(ExceptionMessage["execute"])]
        ELSE IF ~has_section
        THEN [statements |-> sent, cursor_ops |-> <<"cursor", "execute">>, rows |-> {},
              raised |-> Some("ORA-00904: \"I\".\"SECTION\": invalid identifier")]
        ELSE IF fault = "fetch"
        THEN [statements |-> sent, cursor_ops |-> <<"cursor", "execute", "fetchall">>,
              rows |-> {}, raised |-> Some(ExceptionMessage["fetch"])]
        ELSE [statements |-> sent,
              cursor_ops |-> <<"cursor", "execute", "fetchall", "close">>,
              rows |-> found, raised |-> None]

\* render_filters in one run of the script, with the values w of its
\* widgets: the dict it returns, the cached lookups it calls (get_indicators
\* always, get_units_for_indicators when indicators are selected), the
\* options its two multiselects offer, the statements it sends through
\* cursors of its own, what it does to each of them, and what it shows.
\* Without the date-range option the years are those of the two number
\* inputs and no month is returned.  Every message here is shorter than the
\* 100 characters the warning keeps.
render_filters(indicator_type, locations, units, conn, w) ==
    LET ind == Through("get_indicators", conn, <<Some(indicator_type)>>,
                       get_indicators_body(conn, Some(indicator_type)))
        ind_df == ind.did.result
        ind_options ==
            IF ind_df.rows = <<>> THEN <<>>
            ELSE SortNames({ind_df.rows[n].INDICATOR_NAME : n \in DOMAIN ind_df.rows})
        selected_indicators == w.selected_indicators
        for_units == Through("get_units_for_indicators", conn,
                             <<Some(selected_indicators), indicator_type>>,
                             get_units_for_indicators_body(
                                 conn, Some(selected_indicators), indicator_type))
        available_units ==
            IF selected_indicators # <<>> THEN for_units.did.result ELSE units
        selected_units == IF available_units # <<>> THEN w.selected_units ELSE <<>>
        metadata == metadata_query(conn, indicator_type, selected_indicators,
                                   selected_units, "panel")
    IN  [returned |->
            [start_year |-> IF w.use_range THEN w.start_dt.year ELSE w.from_year,
             end_year |-> IF w.use_range THEN w.end_dt.year ELSE w.to_year,
             start_month |-> IF w.use_range THEN Some(w.start_dt.month) ELSE None,
             end_month |-> IF w.use_range THEN Some(w.end_dt.month) ELSE None,
             location |-> w.location, aggregation |-> w.aggregation,
             selected_indicators |->
                IF selected_indicators = <<>> THEN None ELSE Some(selected_indicators),
             selected_units |->
                IF selected_units = <<>> THEN None ELSE Some(selected_units)],
         ind_options |-> ind_options,
         available_units |-> available_units,
         lookups |-> IF selected_indicators # <<>> THEN <<ind, for_units>> ELSE <<ind>>,
         statements |-> IF selected_indicators # <<>> THEN metadata.statements ELSE <<>>,
         cursor_ops |->
            IF selected_indicators # <<>> /\ metadata.cursor_ops # <<>>
            THEN <<metadata.cursor_ops>> ELSE <<>>,
         shown |->
            (IF available_units = <<>> /\ selected_indicators # <<>>
             THEN <<Shown("caption", "No units found for selected indicators")>>
             ELSE <<>>)
            \o (IF selected_indicators = <<>> THEN <<>>
                ELSE IF metadata.raised # None
                THEN <<Shown("warning",
                             "Could not load descriptions: " \o Get(metadata.raised))>>
                ELSE IF metadata.rows = {}
                THEN <<Shown("info", "No descriptions found for selected indicators.")>>
                ELSE <<>>)]

\* Columns that the Excel export does not take for indicator names.
standard_cols ==
    {"TIME_PERIOD", "YEAR", "MONTH", "QUARTER", "LOCATION_NAME", "LOCATION", "UNIT",
     "DESCRIPTION", "INDICATOR_TYPE", "SECTION"}

\* render_data_display: a warning and nothing else for an empty DataFrame;
\* otherwise the table is shown and the Excel export sends the metadata
\* SELECT for the selected indicators, or, when none is selected, for every
\* column of the table that is not a standard one.  What that query raises
\* is dropped (except Exception: pass).  The cards and the chart are not
\* part of the model.
render_data_display(df, title, indicator_type, filters, conn) ==
    IF df.rows = <<>> \/ df.columns = <<>>
    THEN [shown |-> <<Shown("warning", "No data found for " \o title
                                         \o ". Try adjusting your filters.")>>,
          statements |-> <<>>, cursor_ops |-> <<>>]
    ELSE
    LET selected_indicators ==
            IF filters.selected_indicators # None THEN Get(filters.selected_indicators)
            ELSE SelectSeq(df.columns, LAMBDA c : c \notin standard_cols)
        selected_units ==
            IF filters.selected_units # None THEN Get(filters.selected_units) ELSE <<>>
        metadata == metadata_query(conn, indicator_type, selected_indicators,
                                   selected_units, "export")
    IN  [shown |-> <<>>,
         statements |-> IF selected_indicators # <<>> THEN metadata.statements ELSE <<>>,
         cursor_ops |->
            IF selected_indicators # <<>> /\ metadata.cursor_ops # <<>>
            THEN <<metadata.cursor_ops>> ELSE <<>>]

\* The BOP tab in one run of the script (app.py:1209-1235): the filter
\* panel, and when the Load BOP Data button was pressed get_data with the
\* returned filters in wide form and the display of its table.  Whatever
\* get_data lets through is caught by the block and shown as an error, so
\* nothing is raised.  The lookups of the panel fill st.cache_data.
load_bop(locations, units, w, pressed) ==
    LET panel == render_filters("BOP", locations, units, "main", w)
        filters == panel.returned
        r == Request("BOP", filters.start_year, filters.end_year,
                     filters.start_month, filters.end_month, filters.location,
                     filters.selected_indicators, filters.selected_units,
                     filters.aggregation, TRUE)
    IN  /\ calls < MaxCalls
        /\ calls' = calls + Len(panel.lookups)
        /\ lookup' = Some(panel.lookups[Len(panel.lookups)])
        /\ data_cache' = data_cache \cup
              {<<<<l.fn>> \o l.args, l.did.result>> :
                  l \in {panel.lookups[n] : n \in {k \in DOMAIN panel.lookups :
                                                      ~panel.lookups[k].hit}}}
        /\ UNCHANGED <<facts, fault, has_section>>
        /\ UNCHANGED <<resource_cache, connections, session_state, login, notice>>
        /\ IF pressed
           THEN \E o \in get_data_outcome(r, facts) :
                  LET display == render_data_display(o.result, "Balance of Payments (BOP)",
                                                     "BOP", filters, "main")
                      caught == o.raised # None
                      failure == IF caught
                                 THEN <<"Error loading BOP data: " \o Get(o.raised)>>
                                 ELSE <<>>
                  IN  /\ request' = Some(r)
                      /\ query' = o.query
                      /\ params' = o.params
                      /\ executed' = o.executed
                      /\ cursor' = o.cursor
                      /\ errors' = o.errors \o failure
                      /\ result' = o.result
                      /\ fetched' = o.fetched
                      /\ cursor_ops' = o.cursor_ops
                      /\ raised' = None
                      /\ page' = Some(
                            [tab |-> "BOP", filters |-> Some(filters),
                             shown |->
                                panel.shown
                                \o [n \in DOMAIN errors' |-> Shown("error", errors'[n])]
                                \o (IF caught
                                    THEN <<Shown("info",
                                        "Please check your database connection and filter settings.")>>
                                    ELSE display.shown),
                             statements |->
                                panel.statements
                                \o (IF caught THEN <<>> ELSE display.statements),
                             cursor_ops |->
                                panel.cursor_ops
                                \o (IF caught THEN <<>> ELSE display.cursor_ops)])
           ELSE /\ page' = Some([tab |-> "BOP", filters |-> Some(filters),
                                 shown |-> panel.shown,
                                 statements |-> panel.statements,
                                 cursor_ops |-> panel.cursor_ops])
                /\ UNCHANGED <<request, query, params, executed, cursor, errors,
                               result, fetched, cursor_ops, raised>>

\* Statements typed into the text area of the Raw SQL tab: nothing, blanks,
\* a query, a statement that writes, and one the warehouse cannot parse.
RawStatements ==
    {"", " ", "SELECT * FROM FACT_BOP", "DELETE FROM FACT_BOP", "SELEC * FROM FACT_BOP"}

\* The Execute button of the Raw SQL tab (app.py:1262-1285):
\* pd.read_sql(sql_query, conn) sends the statement as typed.  A statement
\* that writes is carried out on the connection before pandas fails on the
\* missing result set, so the rows the connection sees are gone although
\* the page shows an error.  pandas wraps what cursor.execute raises.
\* Every failure is shown, none is raised.  The tab opens with its standing
\* warning in every run.
raw_sql(sql_query) ==
    LET rows == {f \in facts : f.table = "FACT_BOP"}
        stripped == IF sql_query = " " THEN "" ELSE sql_query
        ExecutionFailed(message) ==
            "Execution failed on sql '" \o sql_query \o "': " \o message
        did ==
            IF stripped = ""
            THEN [sent |-> <<>>, facts |-> facts,
                  shown |-> <<Shown("warning", "Please enter a SQL query first.")>>]
            ELSE IF fault = "cursor"
            THEN [sent |-> <<>>, facts |-> facts,
                  shown |-> <<Shown("error", "Query error: " \o ExceptionMessage["cursor"])>>]
            ELSE IF fault = "execute"
            THEN [sent |-> <<sql_query>>, facts |-> facts,
                  shown |-> <<Shown("error", "Query error: "
                      \o ExecutionFailed(ExceptionMessage["execute"]))>>]
            ELSE IF sql_query = "DELETE FROM FACT_BOP"
            THEN [sent |-> <<sql_query>>, facts |-> facts \ rows,
                  shown |-> <<Shown("error",
                                    "Query error: 'NoneType' object is not iterable")>>]
            ELSE IF sql_query # "SELECT * FROM FACT_BOP"
            THEN [sent |-> <<sql_query>>, facts |-> facts,
                  shown |-> <<Shown("error", "Query error: "
                      \o ExecutionFailed(BadStatement))>>]
            ELSE IF fault = "fetch"
            THEN [sent |-> <<sql_query>>, facts |-> facts,
                  shown |-> <<Shown("error", "Query error: " \o ExceptionMessage["fetch"])>>]
            ELSE [sent |-> <<sql_query>>, facts |-> facts,
                  shown |-> <<Shown("success", "Query executed successfully! Returned "
                                        \o ToString(Cardinality(rows)) \o " rows.")>>
                            \o (IF rows = {}
                                THEN <<Shown("info", "Query executed but returned no results.")>>
                                ELSE <<>>)]
    IN  /\ facts' = did.facts
        /\ page' = Some([tab |-> "Raw SQL", filters |-> None,
                         shown |-> <<Shown("warning",
                             "**Advanced users only**. Be careful with write operations.")>>
                                   \o did.shown,
                         statements |-> [n \in DOMAIN did.sent |->
                                            [text |-> <<did.sent[n]>>, params |-> {}]],
                         cursor_ops |-> <<>>])
        /\ UNCHANGED <<request, query, params, executed, cursor, errors, result, fault,
                       fetched, cursor_ops, raised, has_section, data_cache, lookup, calls>>
        /\ UNCHANGED <<resource_cache, connections, session_state, login, notice>>

-----------------------------------------------------------------------------
(* Specifications.                                                         *)

NoCall ==
    /\ request = None
    /\ query = <<>>
    /\ params = {}
    /\ executed = <<>>
    /\ cursor = "none"
    /\ errors = <<>>
    /\ result = EmptyDataFrame
    /\ fetched = EmptyDataFrame
    /\ cursor_ops = <<>>
    /\ raised = None

\* No reference lookup has been made.
NoLookup == data_cache = {} /\ lookup = None /\ calls = 0

\* The server has just started: no session has submitted the login form.
NoSession ==
    /\ resource_cache = {}
    /\ connections = <<>>
    /\ session_state = [s \in Sessions |-> NotConnected]
    /\ login = None
    /\ notice = [s \in Sessions |-> None]
    /\ page = None

\* The warehouse access of the call does not fail, and the schema of
\* DIM_INDICATOR has its SECTION column.
Healthy == fault = "none" /\ has_section = TRUE /\ NoLookup /\ NoSession

\* get_data keeps nothing between calls (it opens its own cursor and returns
\* a fresh DataFrame), so a behaviour is one call on one warehouse content.

\* Aggregation runs: a series of at most MaxFacts months in the warehouse;
\* requests at every level, for BaseYear, with and without a month filter,
\* no name filter, long form.
Init ==
    /\ \E t \in {"FACT_CPI", "FACT_BOP"}, i \in Indicators,
          M \in SubsetsUpTo(SeriesPeriods, MaxFacts) :
          \E v \in [M -> Values] : facts = SeriesWarehouse(t, i, M, v)
    /\ Healthy
    /\ NoCall
Next ==
    /\ NoCall
    /\ \E dg \in {"CPI", "BOP"}, agg \in Aggregations,
          m \in {<<None, None>>, <<Some(1), Some(6)>>} :
          get_data(Request(dg, BaseYear, BaseYear, m[1], m[2], "Tanzania",
                           None, None, agg, FALSE))
Spec == Init /\ [][Next]_vars

\* Builder runs: one warehouse, every shape of request, wide form.
InitBuild == facts = SampleFacts /\ Healthy /\ NoCall
NextBuild ==
    /\ NoCall
    /\ \E dg \in {"CPI", "BOP", "XYZ"}, y \in YearPairs, m \in MonthPairs,
          loc \in Locations, inds \in NameLists({"Exports", "Reserves"}, MaxNames),
          units \in NameLists(Units, MaxUnits), agg \in Aggregations :
          get_data(Request(dg, y[1], y[2], m[1], m[2], loc, inds, units, agg, TRUE))
SpecBuild == InitBuild /\ [][NextBuild]_vars

\* Filter runs: small warehouses, name filters, long and wide form.
InitFilter == facts \in FilterWarehouses /\ Healthy /\ NoCall
NextFilter ==
    /\ NoCall
    /\ \E inds \in {None, Some(<<>>), Some(<<"Exports">>), Str("Exports")},
          units \in {None, Some(<<>>), Some(<<"USD Million">>), Str("USD Million")},
          agg \in {"monthly", "quarterly"}, wide \in BOOLEAN :
          get_data(Request("BOP", BaseYear, BaseYear, None, None, "Tanzania",
                           inds, units, agg, wide))
SpecFilter == InitFilter /\ [][NextFilter]_vars

\* Pivot runs: warehouses of at most MaxRows rows of FACT_BOP over the months
\* of a quarter and the month after it, the same series in two units, so
\* that the long result has duplicates and NULL values; wide form.
PivotUniverse ==
    {Fact("FACT_BOP", BaseYear, m, "Tanzania", i, u, Some(v)) :
        m \in {1, 3, 4}, i \in {"Exports", "Reserves"},
        u \in {None, Some("USD Million")}, v \in Values}
InitPivot ==
    /\ facts \in {F \in SubsetsUpTo(PivotUniverse, MaxRows) : UniqueKeys(F)}
    /\ Healthy
    /\ NoCall
NextPivot ==
    /\ NoCall
    /\ \E agg \in {"monthly", "quarterly"} :
          get_data(Request("BOP", BaseYear, BaseYear, None, None, "Tanzania",
                           None, None, agg, TRUE))
SpecPivot == InitPivot /\ [][NextPivot]_vars

\* Ordering runs: warehouses of at most MaxRows rows of FACT_BOP over three
\* months of two calendar years, two fiscal years and three quarters, two
\* indicators, each in one or two units; every level, long and wide form.
OrderUniverse ==
    {Fact("FACT_BOP", p[1], p[2], "Tanzania", i, Some(u), Some(v)) :
        p \in {<<BaseYear, 6>>, <<BaseYear, 8>>, <<BaseYear + 1, 1>>},
        i \in {"Exports", "Reserves"}, u \in Units, v \in Values}
InitOrder ==
    /\ facts \in {F \in SubsetsUpTo(OrderUniverse, MaxRows) : UniqueKeys(F)}
    /\ Healthy
    /\ NoCall
NextOrder ==
    /\ NoCall
    /\ \E agg \in Aggregations, wide \in BOOLEAN :
          get_data(Request("BOP", BaseYear, BaseYear + 1, None, None, "Tanzania",
                           None, None, agg, wide))
SpecOrder == InitOrder /\ [][NextOrder]_vars

\* Runs of the BOP tab: warehouses of at most MaxRows monthly observations
\* of one series over two years, read through an open connection, a closed
\* one or one whose statements are refused, with or without the SECTION
\* column in DIM_INDICATOR.  The panel is set to a date
\* range from a start date to an end date not before it, or to two years
\* with indicators and units picked among those its multiselects offer;
\* the script runs with the Load button pressed, at once or after a first
\* run without it.
RangeUniverse ==
    {Fact("FACT_BOP", p[1], p[2], "Tanzania", "Exports", Some("USD Million"), Some(v)) :
        p \in {<<BaseYear, 2>>, <<BaseYear, 4>>, <<BaseYear, 8>>,
               <<BaseYear + 1, 2>>, <<BaseYear + 1, 4>>, <<BaseYear + 1, 8>>},
        v \in Values}
RangeDates ==
    {Date(y, m, 1) : y \in {BaseYear, BaseYear + 1}, m \in {3, 6}}
Before(a, b) == a.year < b.year \/ (a.year = b.year /\ a.month <= b.month)
RangeWidgets ==
    {Widgets(TRUE, start_dt, end_dt, 2020, 2023, "Tanzania", aggregation, <<>>, <<>>) :
        start_dt \in RangeDates, end_dt \in RangeDates,
        aggregation \in {"monthly", "quarterly"}}
    \cup {Widgets(FALSE, Date(2020, 1, 1), Date(2023, 12, 31), BaseYear, BaseYear + 1,
                  "Tanzania", "monthly", indicators, units) :
            indicators \in {<<>>, <<"Exports">>}, units \in {<<>>, <<"USD Million">>}}
Offered(panel, w) ==
    /\ Range(w.selected_indicators) \subseteq Range(panel.ind_options)
    /\ Range(w.selected_units) \subseteq Range(panel.available_units)
FirstRender ==
    {Widgets(FALSE, Date(2020, 1, 1), Date(2023, 12, 31), 2020, 2023, "Tanzania",
             "monthly", indicators, <<>>) : indicators \in {<<>>, <<"Exports">>}}
InitRange ==
    /\ facts \in {F \in SubsetsUpTo(RangeUniverse, MaxRows) : UniqueKeys(F)}
    /\ fault \in {"none", "cursor", "execute"}
    /\ has_section \in BOOLEAN
    /\ (fault # "none" \/ ~has_section) => Cardinality(facts) <= 1
    /\ NoLookup
    /\ NoSession
    /\ NoCall
NextRange ==
    /\ NoCall
    /\ \E pressed \in BOOLEAN, w \in RangeWidgets \cup FirstRender :
          LET units == get_units_body("main").result
              listed == get_locations_body("main").result
              locations == IF listed = <<>> THEN <<"Tanzania">> ELSE listed
          IN  /\ IF pressed THEN w \in RangeWidgets ELSE page = None /\ w \in FirstRender
              /\ Before(w.start_dt, w.end_dt)
              /\ Offered(render_filters("BOP", locations, units, "main", w), w)
              /\ load_bop(locations, units, w, pressed)
SpecRange == InitRange /\ [][NextRange]_vars

\* Failure runs: one warehouse, any failure of the access, requests of every
\* data_group and level and of a level the builder does not know, after the
\* Raw SQL tab was used or without it.
InitFault ==
    /\ facts = SampleFacts
    /\ fault \in Faults
    /\ has_section = TRUE
    /\ NoLookup
    /\ NoSession
    /\ NoCall
NextFault ==
    \/ /\ NoCall
       /\ \E dg \in {"CPI", "BOP", "XYZ"}, agg \in Aggregations \cup {"weekly"},
             y \in {<<BaseYear, BaseYear>>, <<BaseYear + 1, BaseYear>>},
             m \in {<<None, None>>, <<Some(1), Some(6)>>},
             inds \in {None, Some(<<"Exports">>)}, wide \in BOOLEAN :
             get_data(Request(dg, y[1], y[2], m[1], m[2], "Tanzania", inds, None, agg, wide))
    \/ /\ NoCall
       /\ page = None
       /\ \E sql_query \in RawStatements : raw_sql(sql_query)
SpecFault == InitFault /\ [][NextFault]_vars

\* Lookup runs: one warehouse, with or without the SECTION column, with a
\* failing or a working access; at most MaxCalls lookups.
InitLookup ==
    /\ facts = SampleFacts
    /\ fault \in LookupFaults
    /\ has_section \in BOOLEAN
    /\ NoLookup
    /\ NoSession
    /\ NoCall
NextLookup ==
    \/ \E c \in Connections : get_units(c)
    \/ \E c \in Connections : get_locations(c)
    \/ \E c \in Connections, names \in SeqsUpTo({"Exports", "Index"}, MaxTuple),
          t \in {"CPI", "BOP"} :
          get_units_for_indicators(c, Some(names), t)
    \/ \E c \in Connections, section \in {None, Some("CPI"), Some("BOP"), Some("STOCK")} :
          get_indicators(c, section)
    \/ \E c \in Connections : test_connection(c)
    \/ CacheExpire
SpecLookup == InitLookup /\ [][NextLookup]_vars

\* Recovery runs: the lookups of one connection on a warehouse whose access
\* fails at first and may recover; at most MaxCalls lookups.
InitRecover ==
    /\ facts = SampleFacts
    /\ fault \in {"execute", "once"}
    /\ has_section = TRUE
    /\ NoLookup
    /\ NoSession
    /\ NoCall
NextRecover ==
    \/ get_units("main")
    \/ get_locations("main")
    \/ \E names \in SeqsUpTo({"Exports", "Index"}, 1), t \in {"CPI", "BOP"} :
          get_units_for_indicators("main", Some(names), t)
    \/ \E section \in {None, Some("CPI"), Some("BOP")} : get_indicators("main", section)
    \/ Recover
    \/ CacheExpire
SpecRecover == InitRecover /\ [][NextRecover]_vars

\* Session runs: MaxSessions browser sessions of one server submit the login
\* form and press Disconnect, in any order, the driver answering as it may.
InitSession == facts = SampleFacts /\ Healthy /\ NoCall
NextSession ==
    \/ \E s \in Sessions, username \in Usernames, password \in Passwords :
          \E outcome \in DriverOutcomes(password) :
             Login(s, username, password, outcome)
    \/ \E s \in Sessions : Disconnect(s)
SpecSession == InitSession /\ [][NextSession]_vars

-----------------------------------------------------------------------------
(* Properties.                                                             *)

Called == request # None
Req == Get(request)
ValidGroup == Called /\ Req.data_group \in {"CPI", "BOP"}
Succeeded == ValidGroup /\ errors = <<>> /\ raised = None

\* Length of an optional name list: 0 when omitted or empty.
Count(names) == IF TruthyList(names) THEN Len(AsList(names)) ELSE 0

\* C1: a call whose data_group is neither "CPI" nor "BOP" reports the
\* invalid-argument error, builds no SQL text and no parameters, executes
\* no statement on the warehouse and returns an empty table.
C1_InvalidDataGroupRejected ==
    (Called /\ Req.data_group \notin {"CPI", "BOP"}) =>
        /\ errors = <<InvalidDataGroup>>
        /\ query = <<>>
        /\ params = {}
        /\ executed = <<>>
        /\ result = EmptyDataFrame

C1_Witness ==
    /\ Called
    /\ Req.data_group = "XYZ"
    /\ errors = <<InvalidDataGroup>>
    /\ executed = <<>>

\* C6 (as claimed): under fiscal_year the query has no month restriction and
\* binds no month parameter whatever months are supplied; under the other
\* levels the restriction is there exactly when both months are supplied.
C6_MonthFilterExcludedUnderFiscal ==
    ValidGroup =>
        IF Req.aggregation = "fiscal_year"
        THEN /\ ~Has(query, MONTH_FILTER)
             /\ \A b \in params : b[1] \notin {"start_month", "end_month"}
        ELSE /\ Has(query, MONTH_FILTER)
                  <=> (Req.start_month # None /\ Req.end_month # None)
             /\ (\E b \in params : b[1] \in {"start_month", "end_month"})
                  <=> (Req.start_month # None /\ Req.end_month # None)

\* C7: the number of bound parameters is 2 (year bounds) + 1 (location) +
\* |indicator_names| + |unit_names| + 2 if the month restriction is in the
\* query, at every aggregation level.
C7_ParameterCount ==
    ValidGroup =>
        Cardinality(params) =
            2 + 1 + Count(Req.indicator_names) + Count(Req.unit_names)
              + (IF Has(query, MONTH_FILTER) THEN 2 ELSE 0)

C7_Witness ==
    /\ ValidGroup
    /\ Has(query, MONTH_FILTER)
    /\ Count(Req.indicator_names) = 2
    /\ Count(Req.unit_names) = 1
    /\ Cardinality(params) = 8

\* Rows to probe the WHERE clause with: every month of the years around the
\* requested ranges, for a few combinations of location, indicator and unit.
ProbeRows ==
    Joined("FACT_BOP",
           {Fact("FACT_BOP", y, m, c[1], c[2], c[3], Some(5)) :
               y \in (BaseYear - 2)..(BaseYear + 3), m \in 1..12,
               c \in {<<"Tanzania", "Exports", Some("USD Million")>>,
                      <<"Kenya", "Exports", Some("USD Million")>>,
                      <<"Tanzania", "Index", None>>,
                      <<"Tanzania", "Reserves", Some("TZS Million")>>}})

\* The filters of the request other than the time window, on a row.
PassesNameFilters(r, j) ==
    /\ j.LOCATION_NAME = r.location
    /\ Count(r.indicator_names) > 0 =>
          \E k \in 1..Count(r.indicator_names) :
              AsList(r.indicator_names)[k] = j.INDICATOR_NAME
    /\ Count(r.unit_names) > 0 =>
          /\ j.UNIT # None
          /\ \E k \in 1..Count(r.unit_names) : AsList(r.unit_names)[k] = Get(j.UNIT)

\* The fiscal year a month belongs to (July-June, named by its first year).
FiscalYearOf(year, month) == IF month >= 7 THEN year ELSE year - 1

\* C5: under fiscal_year with no month filter, a row that passes the other
\* filters is selected exactly when (year = start_year - 1 and month >= 7) or
\* start_year <= year <= end_year or (year = end_year + 1 and month <= 6);
\* every fiscal year from start_year - 1 through end_year has all twelve of
\* its months inside that window, and for start_year <= end_year these are
\* the only fiscal years a selected row belongs to.
C5_FiscalWindow ==
    (ValidGroup /\ Req.aggregation = "fiscal_year"
        /\ ~(Req.start_month # None /\ Req.end_month # None)) =>
        LET sy == Req.start_year
            ey == Req.end_year
        IN  /\ \A j \in ProbeRows :
                  LET sel == Selected(query, params, j) IN
                  /\ sel <=>
                      /\ PassesNameFilters(Req, j)
                      /\ \/ (j.YEAR = sy - 1 /\ j.MONTH >= 7)
                         \/ (sy <= j.YEAR /\ j.YEAR <= ey)
                         \/ (j.YEAR = ey + 1 /\ j.MONTH <= 6)
                  /\ (sel /\ sy <= ey) =>
                        FiscalYearOf(j.YEAR, j.MONTH) \in (sy - 1)..ey
            /\ \A f \in (sy - 1)..ey : \A m \in 1..12 :
                  InWindow(WhereOf(query), params, IF m >= 7 THEN f ELSE f + 1, m)

C5_Witness ==
    /\ Succeeded
    /\ Req.aggregation = "fiscal_year"
    /\ Req.start_month = None /\ Req.end_month = None
    /\ Req.start_year < Req.end_year
    /\ result.rows # <<>>

\* The literal fragments of the statements: the text of the source outside
\* the interpolated pieces.
LiteralFragments ==
    {FROM_JOINS, WHERE_YEARS, WHERE_FISCAL, SELECT_MONTHLY, SELECT_QUARTERLY,
     SELECT_FISCAL, SELECT_ANNUAL, STOCK_QUARTER_END, STOCK_JUNE, STOCK_DECEMBER,
     CASE_END, MONTH_FILTER, IN_INDICATOR, IN_UNIT, COMMA, CLOSE_PAREN,
     GROUP_QUARTERLY, GROUP_FISCAL, GROUP_ANNUAL, ORDER_MONTHLY}

\* Requests that agree with r on data_group, aggregation, which of the months
\* are given and the lengths of the two name lists, with other values.
SameLength(names, U) ==
    IF names = None THEN {None}
    ELSE IF isinstance_str(names)
    THEN IF names[2] = "" THEN {names} ELSE {Str(s) : s \in U}
    ELSE {Some(q) : q \in [1..Len(Get(names)) -> U]}
Variants(r) ==
    {Request(r.data_group, c[1], c[2],
             IF r.start_month = None THEN None ELSE Some(c[3]),
             IF r.end_month = None THEN None ELSE Some(c[4]),
             c[5], inds, units, r.aggregation, r.wide_format) :
        c \in {<<BaseYear, BaseYear, 1, 6, "Tanzania">>,
               <<BaseYear + 1, BaseYear + 2, 2, 12, "Kenya">>},
        inds \in SameLength(r.indicator_names, {"Exports", "Reserves"}),
        units \in SameLength(r.unit_names, Units)}

\* The values the caller supplies, as they would read in SQL text.
UserValues(r) ==
    {r.location, ToString(r.start_year), ToString(r.end_year)}
    \cup (IF r.start_month = None THEN {} ELSE {ToString(Get(r.start_month))})
    \cup (IF r.end_month = None THEN {} ELSE {ToString(Get(r.end_month))})
    \cup Range(AsList(r.indicator_names))
    \cup Range(AsList(r.unit_names))

\* C9: the SQL text holds no user-supplied value.  It is the same for every
\* request that agrees on data_group, aggregation, presence of the month
\* filter and the lengths of the name lists; each of its fragments is literal
\* text, the fact-table name, the aggregate function name or a placeholder
\* name; and every name of a list is bound to its own parameter.
C9_NoUserValueInText ==
    ValidGroup =>
        /\ \A r2 \in Variants(Req) : BuildText(r2) = query
        /\ \A k \in DOMAIN query :
              /\ query[k] \in LiteralFragments \cup {"FACT_CPI", "FACT_BOP"} \cup {"SUM", "AVG"}
                                \cup {":ind" \o ToString(n) : n \in 0..MaxNames}
                                \cup {":unit" \o ToString(n) : n \in 0..MaxUnits}
              /\ query[k] \notin UserValues(Req)
        /\ <<"location", Req.location>> \in params
        /\ <<"start_year", Req.start_year>> \in params
        /\ <<"end_year", Req.end_year>> \in params
        /\ \A k \in 1..Count(Req.indicator_names) :
              <<"ind" \o ToString(k - 1), AsList(Req.indicator_names)[k]>> \in params
        /\ \A k \in 1..Count(Req.unit_names) :
              <<"unit" \o ToString(k - 1), AsList(Req.unit_names)[k]>> \in params

C9_Witness ==
    /\ Succeeded
    /\ Count(Req.indicator_names) = 2
    /\ Count(Req.unit_names) = 1
    /\ Req.start_month # None /\ Req.end_month # None
    /\ Has(query, ":ind1")
    /\ Has(query, ":unit0")

-----------------------------------------------------------------------------
(* Aggregated values and fiscal grouping, stated on the warehouse content. *)

Aggregated == Succeeded /\ Req.aggregation \in {"quarterly", "annual", "fiscal_year"}

\* The fact rows the request asks for: its table, its location, its year
\* window (widened under fiscal_year), its months when both are given.
RequestedFacts ==
    {f \in facts :
        /\ f.table = (IF Req.data_group = "CPI" THEN "FACT_CPI" ELSE "FACT_BOP")
        /\ PassesNameFilters(Req, f)
        /\ IF Req.aggregation = "fiscal_year"
           THEN \/ (f.YEAR = Req.start_year - 1 /\ f.MONTH >= 7)
                \/ (Req.start_year <= f.YEAR /\ f.YEAR <= Req.end_year)
                \/ (f.YEAR = Req.end_year + 1 /\ f.MONTH <= 6)
           ELSE Req.start_year <= f.YEAR /\ f.YEAR <= Req.end_year
        /\ (Req.start_month # None /\ Req.end_month # None) =>
              (Get(Req.start_month) <= f.MONTH /\ f.MONTH <= Get(Req.end_month))}

\* The requested facts a row of the aggregated result stands for.
MembersOf(row) ==
    {f \in RequestedFacts :
        /\ f.LOCATION_NAME = row.LOCATION_NAME
        /\ f.INDICATOR_NAME = row.INDICATOR_NAME
        /\ f.UNIT = row.UNIT
        /\ IF Req.aggregation = "quarterly"
           THEN f.YEAR = row.YEAR /\ (f.MONTH + 2) \div 3 = row.QUARTER
           ELSE IF Req.aggregation = "annual" THEN f.YEAR = row.YEAR
           ELSE FiscalYearOf(f.YEAR, f.MONTH) = row.FISCAL_YEAR}

IsStock(type) == type \in {"STOCK", "Stock", "stock"}

RECURSIVE Total(_)
Total(S) ==
    IF S = {} THEN 0
    ELSE LET f == CHOOSE x \in S : TRUE IN Get(f.VALUE) + Total(S \ {f})

\* Sum (BOP) or mean (CPI) of the values of a set of facts, NULL when no
\* fact of the set has a value.
FlowValue(data_group, S) ==
    LET V == {f \in S : f.VALUE # None} IN
    IF V = {} THEN None
    ELSE IF data_group = "BOP" THEN Some(Rat(Total(V), 1))
    ELSE Some(Rat(Total(V), Cardinality(V)))

\* The month that ends the period of a row of the aggregated result.
PeriodEndMonth(row) ==
    IF Req.aggregation = "quarterly" THEN 3 * row.QUARTER
    ELSE IF Req.aggregation = "annual" THEN 12
    ELSE 6

\* C2: under quarterly, annual and fiscal_year aggregation the VALUE of a
\* result row whose indicator type is not STOCK is the sum of the values of
\* its facts when data_group is BOP and their mean when it is CPI, and every
\* requested fact is in the facts of some result row.
C2_FlowSumOrMean ==
    Aggregated =>
        /\ \A i \in DOMAIN result.rows :
              LET row == result.rows[i] IN
              ~IsStock(row.INDICATOR_TYPE) =>
                  /\ MembersOf(row) # {}
                  /\ row.VALUE = FlowValue(Req.data_group, MembersOf(row))
        /\ \A f \in RequestedFacts :
              \E i \in DOMAIN result.rows : f \in MembersOf(result.rows[i])

\* BOP, quarterly: three monthly flows of 5 in one quarter give 15.
C2_Witness ==
    /\ Aggregated
    /\ Req.data_group = "BOP"
    /\ Req.aggregation = "quarterly"
    /\ \E i \in DOMAIN result.rows :
          LET row == result.rows[i] IN
          /\ row.INDICATOR_TYPE = "Flow"
          /\ {f.VALUE : f \in MembersOf(row)} = {Some(5)}
          /\ Cardinality(MembersOf(row)) = 3
          /\ row.VALUE = Some(Rat(15, 1))

\* C3: the VALUE of a result row whose indicator type is STOCK (any letter
\* case) is the value of the fact of the period-end month (quarter end,
\* December, June) among its facts, and NULL when that fact is absent.
C3_StockPeriodEnd ==
    Aggregated =>
        \A i \in DOMAIN result.rows :
            LET row == result.rows[i]
                E == {f \in MembersOf(row) : f.MONTH = PeriodEndMonth(row)}
            IN  IsStock(row.INDICATOR_TYPE) =>
                    /\ MembersOf(row) # {}
                    /\ Cardinality(E) <= 1
                    /\ IF E = {} \/ (\A f \in E : f.VALUE = None)
                       THEN row.VALUE = None
                       ELSE \E f \in E : row.VALUE = Some(Rat(Get(f.VALUE), 1))

\* Quarterly stock: January 10, February 10, March 5 give 5 for Q1.
C3_Witness ==
    /\ Aggregated
    /\ Req.aggregation = "quarterly"
    /\ \E i \in DOMAIN result.rows :
          LET row == result.rows[i] IN
          /\ row.INDICATOR_TYPE = "stock"
          /\ {<<f.MONTH, f.VALUE>> : f \in MembersOf(row)}
                = {<<1, Some(10)>>, <<2, Some(10)>>, <<3, Some(5)>>}
          /\ row.VALUE = Some(Rat(5, 1))

\* C4: under fiscal_year every requested fact of (year Y, month M) is in
\* exactly one result row, whose FISCAL_YEAR is F = Y if M >= 7 and Y - 1
\* otherwise and whose TIME_PERIOD is "FY{F}/{F+1}"; facts of one fiscal
\* year, location, indicator and unit share their row.
C4_FiscalGrouping ==
    (Succeeded /\ Req.aggregation = "fiscal_year") =>
        \A f \in RequestedFacts :
            LET F == IF f.MONTH >= 7 THEN f.YEAR ELSE f.YEAR - 1
                I == {i \in DOMAIN result.rows :
                        /\ result.rows[i].FISCAL_YEAR = F
                        /\ result.rows[i].LOCATION_NAME = f.LOCATION_NAME
                        /\ result.rows[i].INDICATOR_NAME = f.INDICATOR_NAME
                        /\ result.rows[i].UNIT = f.UNIT}
            IN  /\ Cardinality(I) = 1
                /\ \A i \in I :
                      result.rows[i].TIME_PERIOD =
                          "FY" \o ToString(F) \o "/" \o ToString(F + 1)

\* (BaseYear, 8) and (BaseYear + 1, 3) in one row "FY{BaseYear}/{BaseYear+1}".
C4_Witness ==
    /\ Succeeded
    /\ Req.aggregation = "fiscal_year"
    /\ \E i \in DOMAIN result.rows :
          LET row == result.rows[i] IN
          /\ row.TIME_PERIOD = "FY" \o ToString(BaseYear) \o "/" \o ToString(BaseYear + 1)
          /\ row.FISCAL_YEAR = BaseYear
          /\ \E f, g \in MembersOf(row) :
                /\ f.YEAR = BaseYear /\ f.MONTH = 8
                /\ g.YEAR = BaseYear + 1 /\ g.MONTH = 3

-----------------------------------------------------------------------------
(* Empty name lists and the wide form.                                     *)

\* What the same call returns when one of its name lists is omitted.
ReturnsOf(r) ==
    {[errors |-> o.errors, columns |-> o.result.columns, rows |-> Range(o.result.rows)] :
        o \in get_data_outcome(r, facts)}
Returned == [errors |-> errors, columns |-> result.columns, rows |-> Range(result.rows)]

\* C8: a call with indicator_names = [] puts no indicator IN-clause in the
\* text, binds no indicator parameter and returns the same errors, columns
\* and row set as the same call with indicator_names omitted; likewise for
\* unit_names.
C8_EmptyListAsOmitted ==
    /\ (ValidGroup /\ Req.indicator_names = Some(<<>>)) =>
          /\ ~Has(query, IN_INDICATOR)
          /\ \A b \in params : b[1] \in {"start_year", "end_year", "location",
                                         "start_month", "end_month"}
                                  \cup {"unit" \o ToString(n) : n \in 0..MaxUnits}
          /\ Returned \in ReturnsOf([Req EXCEPT !.indicator_names = None])
    /\ (ValidGroup /\ Req.unit_names = Some(<<>>)) =>
          /\ ~Has(query, IN_UNIT)
          /\ \A b \in params : b[1] \in {"start_year", "end_year", "location",
                                         "start_month", "end_month"}
                                  \cup {"ind" \o ToString(n) : n \in 0..MaxNames}
          /\ Returned \in ReturnsOf([Req EXCEPT !.unit_names = None])

C8_Witness ==
    /\ Succeeded
    /\ Req.indicator_names = Some(<<>>)
    /\ Req.unit_names = Some(<<"USD Million">>)
    /\ ~Req.wide_format
    /\ Len(result.rows) = 2
    /\ {result.rows[i].INDICATOR_NAME : i \in DOMAIN result.rows} = {"Exports", "Reserves"}

\* The long result of the executed statement, as a set of rows.
LongRows == ResultRows(query, params, facts)
FourColumns == {"TIME_PERIOD", "LOCATION_NAME", "INDICATOR_NAME", "VALUE"}
HasExtraColumns == FourColumns \subseteq Range(Description(query))
                      /\ Range(Description(query)) # FourColumns

\* C10 (as claimed): a long result that has the four columns plus others is
\* returned unchanged in long form.
C10_PivotOnlyExactlyFour ==
    (Succeeded /\ Req.wide_format /\ HasExtraColumns) =>
        /\ result.columns = Description(query)
        /\ Range(result.rows) = LongRows

\* C10 (amended): with wide_format set, a non-empty long result that has the
\* four columns among its columns is pivoted, whatever other columns it has.
\* Of the long rows that have a VALUE, the wide table has the columns
\* TIME_PERIOD, LOCATION_NAME and one per indicator, one row per
\* (TIME_PERIOD, LOCATION_NAME), and in each cell the VALUE of a long row of
\* its pair and indicator, empty when there is none; the other columns are
\* dropped.  The long form is returned unchanged when wide_format is not set
\* or the long result is empty.
C10_PivotWhenRequiredColumnsPresent ==
    Succeeded =>
        IF Req.wide_format /\ LongRows # {} /\ FourColumns \subseteq Range(Description(query))
        THEN LET Valued == {w \in LongRows : w.VALUE # None}
                 inds == {w.INDICATOR_NAME : w \in Valued}
                 pairs == {<<w.TIME_PERIOD, w.LOCATION_NAME>> : w \in Valued}
             IN  /\ Len(result.columns) = 2 + Cardinality(inds)
                 /\ result.columns[1] = "TIME_PERIOD"
                 /\ result.columns[2] = "LOCATION_NAME"
                 /\ {result.columns[k] : k \in 3..Len(result.columns)} = inds
                 /\ Len(result.rows) = Cardinality(pairs)
                 /\ {<<result.rows[n].TIME_PERIOD, result.rows[n].LOCATION_NAME>> :
                        n \in DOMAIN result.rows} = pairs
                 /\ \A n \in DOMAIN result.rows :
                       /\ DOMAIN result.rows[n] = Range(result.columns)
                       /\ \A c \in inds :
                             LET V == {w.VALUE : w \in
                                         {x \in Valued :
                                            /\ x.TIME_PERIOD = result.rows[n].TIME_PERIOD
                                            /\ x.LOCATION_NAME = result.rows[n].LOCATION_NAME
                                            /\ x.INDICATOR_NAME = c}}
                             IN  IF V = {} THEN result.rows[n][c] = None
                                 ELSE result.rows[n][c] \in V
        ELSE /\ result.columns = Description(query)
             /\ Range(result.rows) = LongRows

\* A quarterly result of nine columns, pivoted to one column per indicator.
C10_Witness ==
    /\ Succeeded
    /\ Req.wide_format
    /\ Req.aggregation = "quarterly"
    /\ HasExtraColumns
    /\ result.columns = <<"TIME_PERIOD", "LOCATION_NAME", "Exports", "Reserves">>
    /\ Len(result.rows) = 2
    /\ \E n \in DOMAIN result.rows : result.rows[n]["Reserves"] = None

-----------------------------------------------------------------------------
(* The wide table against the long result as fetched.                      *)

\* The call succeeded and pivoted what it fetched.
Pivoted ==
    /\ Succeeded
    /\ Req.wide_format
    /\ fetched.rows # <<>>
    /\ FourColumns \subseteq Range(fetched.columns)

\* Positions of the fetched rows of one (TIME_PERIOD, LOCATION_NAME,
\* INDICATOR_NAME).
FetchedAt(tp, loc, ind) ==
    {i \in DOMAIN fetched.rows :
        /\ fetched.rows[i].TIME_PERIOD = tp
        /\ fetched.rows[i].LOCATION_NAME = loc
        /\ fetched.rows[i].INDICATOR_NAME = ind}
FetchedPairs ==
    {<<fetched.rows[i].TIME_PERIOD, fetched.rows[i].LOCATION_NAME>> :
        i \in DOMAIN fetched.rows}
FetchedIndicators == {fetched.rows[i].INDICATOR_NAME : i \in DOMAIN fetched.rows}

\* C11 (as claimed): a pivoted table has one row per distinct (TIME_PERIOD,
\* LOCATION_NAME) of the long result and 2 + (number of distinct
\* INDICATOR_NAME) columns; a cell without a fact row or with a NULL value is
\* empty, with its row and its column in place.
C11_PivotKeepsRowsAndColumns ==
    Pivoted =>
        /\ Len(result.rows) = Cardinality(FetchedPairs)
        /\ Len(result.columns) = 2 + Cardinality(FetchedIndicators)
        /\ \A p \in FetchedPairs : \A c \in FetchedIndicators :
              \E n \in DOMAIN result.rows :
                  /\ result.rows[n].TIME_PERIOD = p[1]
                  /\ result.rows[n].LOCATION_NAME = p[2]
                  /\ c \in DOMAIN result.rows[n]
                  /\ (\A i \in FetchedAt(p[1], p[2], c) : fetched.rows[i].VALUE = None)
                        => result.rows[n][c] = None

\* C12: when the long result holds more than one VALUE for the same
\* (TIME_PERIOD, LOCATION_NAME, INDICATOR_NAME), the wide cell holds the
\* VALUE of the first row, in fetched order, that holds one; the rows after
\* it leave no trace.  (A row whose VALUE is NULL holds none.)
C12_FirstValueWins ==
    Pivoted =>
        \A n \in DOMAIN result.rows :
            \A c \in DOMAIN result.rows[n] \ {"TIME_PERIOD", "LOCATION_NAME"} :
                LET I == {i \in FetchedAt(result.rows[n].TIME_PERIOD,
                                          result.rows[n].LOCATION_NAME, c) :
                            fetched.rows[i].VALUE # None}
                IN  IF I = {} THEN result.rows[n][c] = None
                    ELSE \E i \in I :
                            /\ \A k \in I : i <= k
                            /\ result.rows[n][c] = fetched.rows[i].VALUE

\* Two rows of one key with different values: the cell has the first.
C12_Witness ==
    /\ Pivoted
    /\ \E n \in DOMAIN result.rows : \E i, k \in DOMAIN fetched.rows :
          /\ i < k
          /\ {i, k} \subseteq FetchedAt(result.rows[n].TIME_PERIOD,
                                        result.rows[n].LOCATION_NAME, "Exports")
          /\ fetched.rows[i].VALUE = Some(Rat(10, 1))
          /\ fetched.rows[k].VALUE = Some(Rat(5, 1))
          /\ result.rows[n]["Exports"] = Some(Rat(10, 1))

-----------------------------------------------------------------------------
(* Failures and the cursor.                                                *)

\* The call got as far as executing its statement.
Executing == Called /\ executed # <<>>

\* The message of what failed during execution, fetching or reshaping of the
\* call, in the order these happen; None when nothing did.
FailureMessage ==
    IF ~Executing THEN None
    ELSE IF fault = "execute" THEN Some("ORA-01031: insufficient privileges")
    ELSE IF ~StatementOK(query, params)
    THEN Some(IF Req.aggregation \in Aggregations
              THEN "ORA-00900: invalid SQL statement"
              ELSE "ORA-00937: not a single-group group function")
    ELSE IF fault = "fetch"
    THEN Some("DPY-4011: the database or network closed the connection")
    ELSE IF fault = "reshape" /\ Req.wide_format /\ LongRows # {}
            /\ FourColumns \subseteq Range(Description(query))
    THEN Some("MemoryError")
    ELSE None

\* C13: whatever fails during statement execution, row fetching or reshaping,
\* the call returns an empty table and reports "Query error: " with the
\* message of the failure, and no exception reaches the caller; a call in
\* which none of these fails reports no query error.
C13_FailuresReported ==
    Executing =>
        /\ raised = None
        /\ IF FailureMessage # None
           THEN /\ errors = <<"Query error: " \o Get(FailureMessage)>>
                /\ result = EmptyDataFrame
           ELSE errors = <<>>

\* A statement the warehouse rejects (aggregates without GROUP BY, built for
\* an unknown level) is reported and gives an empty table.
C13_Witness ==
    /\ Executing
    /\ fault = "none"
    /\ Req.aggregation = "weekly"
    /\ errors = <<"Query error: ORA-00937: not a single-group group function">>
    /\ result = EmptyDataFrame
    /\ raised = None

\* The number of times op occurs in a sequence of operations.
Occurrences(ops, op) == Cardinality({i \in DOMAIN ops : ops[i] = op})

\* C14: on every path on which get_data returns - data_group rejected,
\* execution succeeded, execution failed - the cursor it opened is closed:
\* closing is the last operation on the cursor and happens exactly once.
C14_CursorClosed ==
    (Called /\ raised = None) =>
        /\ cursor = "closed"
        /\ Len(cursor_ops) >= 2
        /\ cursor_ops[1] = "cursor"
        /\ cursor_ops[Len(cursor_ops)] = "close"
        /\ Occurrences(cursor_ops, "close") = 1
        /\ Occurrences(cursor_ops, "cursor") = 1

\* A failed execution: the cursor is closed after the failed execute.
C14_Witness ==
    /\ Called
    /\ fault = "execute"
    /\ errors # <<>>
    /\ cursor_ops = <<"cursor", "execute", "close">>
    /\ cursor = "closed"

\* C15 (as claimed): a request with start_year > end_year is rejected with an
\* error before any query is built, and executes nothing on the warehouse.
C15_InvertedRangeRejected ==
    (Called /\ Req.start_year > Req.end_year) =>
        /\ errors # <<>> \/ raised # None
        /\ query = <<>>
        /\ executed = <<>>

-----------------------------------------------------------------------------
(* The reference lookups.                                                  *)

LookedUp == lookup # None
Last == Get(lookup)

\* The function of the last lookup ran (its return was not cached).
Ran_(fn) == LookedUp /\ Last.fn = fn /\ ~Last.hit

\* The empty collection of a lookup: an empty list, or an empty DataFrame
\* for get_indicators.
ReturnedEmpty ==
    IF Last.fn = "get_indicators" THEN Last.did.result = EmptyDataFrame
    ELSE Last.did.result = <<>>

\* The n-th statement the last lookup sent failed: the access failed, or the
\* statement names a SECTION column that DIM_INDICATOR does not have.
StatementFailed(n) ==
    \/ fault = "execute"
    \/ (fault = "once" /\ n = 1)
    \/ (~has_section /\ Last.fn = "get_indicators"
          /\ Last.did.statements[n] \in
                {INDICATORS_ALL, INDICATORS_OF_SECTION, FALLBACK_OF_SECTION})

\* C16: get_units_for_indicators with an empty tuple of indicators returns
\* an empty list, opens no cursor and sends no statement.
C16_NoIndicatorsNoUnits ==
    (LookedUp /\ Last.fn = "get_units_for_indicators" /\ Last.args[1] = Some(<<>>)) =>
        /\ Last.did.result = <<>>
        /\ Last.did.statements = <<>>
        /\ Last.did.cursor_ops = <<>>
        /\ Last.did.raised = None

\* The function ran, on a working warehouse that has units for an indicator.
C16_Witness ==
    /\ Ran_("get_units_for_indicators")
    /\ Last.args = <<Some(<<>>), "BOP">>
    /\ Last.connection = "main"
    /\ fault = "none"
    /\ Last.did.result = <<>>
    /\ \E f \in facts : f.table = "FACT_BOP" /\ f.UNIT # None

\* C17: no reference lookup lets an exception through, and a lookup all of
\* whose statements fail returns an empty collection.
C17_LookupsFailSoft ==
    (LookedUp /\ Last.fn # "test_connection") =>
        /\ Last.did.raised = None
        /\ (~Last.hit /\ Last.did.statements # <<>>
              /\ \A n \in DOMAIN Last.did.statements : StatementFailed(n))
                => ReturnedEmpty

\* get_indicators when every access fails: both queries tried, empty frame.
C17_Witness ==
    /\ Ran_("get_indicators")
    /\ fault = "execute"
    /\ Len(Last.did.statements) = 2
    /\ Last.did.result = EmptyDataFrame
    /\ Last.did.raised = None

\* C18 (as claimed): when the section query of get_indicators(section) fails,
\* the fallback query has no section filter and every indicator is returned
\* with its name and description.
C18_FallbackIgnoresSection ==
    (Ran_("get_indicators") /\ Last.args[1] # None /\ Len(Last.did.statements) = 2
        /\ fault # "execute") =>
        /\ Last.did.statements[2] = FALLBACK_ALL
        /\ Last.did.result.columns = <<"INDICATOR_NAME", "DESCRIPTION">>
        /\ {Last.did.result.rows[n].INDICATOR_NAME : n \in DOMAIN Last.did.result.rows}
              = IndicatorsThrough(Last.connection)

-----------------------------------------------------------------------------
(* Connections and sessions.                                               *)

Submitted == login # None
Attempt == Get(login)

\* The driver was asked for a connection and refused.
AcquisitionFailed == Submitted /\ ~Attempt.hit /\ Get(Attempt.driver).kind # "ok"

\* C19 (as claimed): a failed acquisition leaves get_oracle_connection as a
\* ConnectionError that carries the driver's message to the caller.
C19_FailureRaisedWithMessage ==
    AcquisitionFailed =>
        /\ Attempt.did.raised # None
        /\ Get(Attempt.did.raised) = Get(Attempt.driver).message

Holds(s) == session_state[s].conn

\* C20 (as claimed): no two sessions hold the same connection, and the
\* connection a session holds has not been closed by another session.
C20_ConnectionOwnedByOneSession ==
    \A s \in Sessions :
        Holds(s) # None =>
            /\ \A t \in Sessions \ {s} : Holds(t) # Holds(s)
            /\ connections[Get(Holds(s))] = "open"

-----------------------------------------------------------------------------
(* The order of the rows.                                                  *)

\* The columns a level is ordered by, as a key of the row.
SortKeyOf(row) ==
    IF Req.aggregation = "monthly"
    THEN <<row.YEAR, row.MONTH, StrRank(row.LOCATION_NAME), StrRank(row.INDICATOR_NAME)>>
    ELSE IF Req.aggregation = "quarterly"
    THEN <<row.YEAR, row.QUARTER, StrRank(row.INDICATOR_NAME)>>
    ELSE IF Req.aggregation = "annual"
    THEN <<row.YEAR, StrRank(row.INDICATOR_NAME)>>
    ELSE <<row.FISCAL_YEAR, StrRank(row.INDICATOR_NAME)>>

\* C21: the rows a call fetches are ascending in (time period, location,
\* indicator name) at the monthly level, (year, quarter, indicator name) at
\* the quarterly, (year, indicator name) at the annual and (fiscal year,
\* indicator name) at the fiscal-year level.
C21_RowsOrdered ==
    Succeeded =>
        \A i, k \in DOMAIN fetched.rows :
            i < k => ~KeyLess(SortKeyOf(fetched.rows[k]), SortKeyOf(fetched.rows[i]))

\* A fiscal-year result of three rows over two fiscal years and two
\* indicators, from facts of three different months.
C21_Witness ==
    /\ Succeeded
    /\ Req.aggregation = "fiscal_year"
    /\ Len(fetched.rows) = 3
    /\ {r.FISCAL_YEAR : r \in Range(fetched.rows)} = {BaseYear - 1, BaseYear}
    /\ {r.INDICATOR_NAME : r \in Range(fetched.rows)} = {"Exports", "Reserves"}

-----------------------------------------------------------------------------
(* No retries.                                                             *)

\* C22: a call of get_data executes at most one statement, once; when the
\* execution fails the failure is reported once and nothing is executed
\* again within the call.
C22_NoRetry ==
    Called =>
        /\ Len(executed) <= 1
        /\ Occurrences(cursor_ops, "execute") <= 1
        /\ Occurrences(cursor_ops, "fetchall") <= 1
        /\ Len(errors) <= 1
        /\ (FailureMessage # None =>
              /\ Len(errors) = 1
              /\ Len(executed) = 1
              /\ Occurrences(cursor_ops, "execute") = 1)

\* The execution of the statement failed and the call returned.
C22_Witness ==
    /\ Executing
    /\ fault = "execute"
    /\ cursor_ops = <<"cursor", "execute", "close">>
    /\ Len(errors) = 1
    /\ result = EmptyDataFrame

-----------------------------------------------------------------------------
(* The session's connection over logins and disconnects.                   *)

\* C23 (as claimed): in every session the connected flag is set exactly
\* when a connection is stored, and the connection of a connected session
\* is open.
C23_ConnectedMeansOpen ==
    \A s \in Sessions :
        /\ session_state[s].connected <=> (session_state[s].conn # None)
        /\ session_state[s].connected =>
              connections[Get(session_state[s].conn)] = "open"

\* C24 (as claimed): a call of get_oracle_connection that follows a failed
\* call with the same arguments asks the driver again; the None of the
\* failure is not returned from the cache.
C24_FailureNotRemembered ==
    (Submitted /\ Attempt.did.returned = None) => ~Attempt.hit

-----------------------------------------------------------------------------
(* The reference lookups and the connection they are given.                *)

\* What the function of the last lookup returns when it runs with the
\* connection and the arguments of the call.
ThroughItsConnection ==
    IF Last.fn = "get_units" THEN get_units_body(Last.connection).result
    ELSE IF Last.fn = "get_locations" THEN get_locations_body(Last.connection).result
    ELSE IF Last.fn = "get_units_for_indicators"
    THEN get_units_for_indicators_body(Last.connection, Last.args[1], Last.args[2]).result
    ELSE get_indicators_body(Last.connection, Last.args[1]).result

\* C25 (as claimed): what a lookup returns is what its own connection
\* gives; a return computed through another connection is never handed out.
C25_ResultOfOwnConnection ==
    (LookedUp /\ Last.fn # "test_connection") => Last.did.result = ThroughItsConnection

-----------------------------------------------------------------------------
(* The reference lookups after a failure.                                  *)

\* C26 (as claimed): once the warehouse access works again, a lookup returns
\* the real data; the empty default of an earlier failure is not served
\* from the cache.
C26_FailureNotCached ==
    (LookedUp /\ Last.during = "none" /\ fault = "none") =>
        Last.did.result = ThroughItsConnection

-----------------------------------------------------------------------------
(* The cursors of the lookups.                                             *)

\* C27 (as claimed): an operation that opened a cursor has closed it when it
\* returns, whether or not execute or fetch raised.
C27_LookupCursorClosed ==
    (LookedUp /\ Last.did.cursor_ops # <<>>) =>
        /\ Last.did.cursor_ops[Len(Last.did.cursor_ops)] = "close"
        /\ Occurrences(Last.did.cursor_ops, "close") = Occurrences(Last.did.cursor_ops, "cursor")

-----------------------------------------------------------------------------
(* The date range of the filter panel.                                     *)

\* The observations (year, month, indicator, unit) among the rows fetched.
FetchedObservations ==
    {<<r.YEAR, r.MONTH, r.INDICATOR_NAME, r.UNIT>> : r \in Range(fetched.rows)}

\* The observations of the requested location from the start month of the
\* start year to the end month of the end year.
ObservationsInRange ==
    {<<f.YEAR, f.MONTH, f.INDICATOR_NAME, f.UNIT>> :
        f \in {g \in facts :
                 /\ g.table = "FACT_BOP"
                 /\ g.LOCATION_NAME = Req.location
                 /\ 12 * g.YEAR + g.MONTH >= 12 * Req.start_year + Get(Req.start_month)
                 /\ 12 * g.YEAR + g.MONTH <= 12 * Req.end_year + Get(Req.end_month)}}

\* C28 (as claimed): with the date-range option and monthly aggregation the
\* rows loaded are exactly the observations of the location between the
\* start month of the start year and the end month of the end year.
C28_DateRangeLoadsRange ==
    (Succeeded /\ Req.aggregation = "monthly" /\ Req.start_month # None
        /\ Req.end_month # None) =>
        FetchedObservations = ObservationsInRange

-----------------------------------------------------------------------------
(* Rows without a unit.                                                    *)

\* The facts of the requested table, years, location and indicators.
FactsAsked ==
    {f \in facts :
        /\ f.table = map_table[Req.data_group]
        /\ Req.start_year <= f.YEAR /\ f.YEAR <= Req.end_year
        /\ f.LOCATION_NAME = Req.location
        /\ (Count(Req.indicator_names) > 0 =>
              f.INDICATOR_NAME \in Range(AsList(Req.indicator_names)))}

\* A fetched row stands for the fact f, itself or within its quarter.
Covers(row, f) ==
    /\ row.YEAR = f.YEAR
    /\ row.INDICATOR_NAME = f.INDICATOR_NAME
    /\ row.UNIT = f.UNIT
    /\ IF Req.aggregation = "monthly" THEN row.MONTH = f.MONTH
       ELSE row.QUARTER = QUARTER(f.MONTH)
IsFetched(f) == \E n \in DOMAIN fetched.rows : Covers(fetched.rows[n], f)

\* C29: without a unit filter the facts that have no unit are in the result,
\* with an empty UNIT; with a non-empty unit list exactly the facts whose
\* unit is listed are, and so none without a unit.
C29_UnitlessRows ==
    (Succeeded /\ Req.aggregation \in {"monthly", "quarterly"}
        /\ Req.start_month = None) =>
        IF Count(Req.unit_names) = 0
        THEN \A f \in FactsAsked : IsFetched(f)
        ELSE /\ \A f \in FactsAsked :
                  IsFetched(f) <=> (f.UNIT # None
                                      /\ Get(f.UNIT) \in Range(AsList(Req.unit_names)))
             /\ \A n \in DOMAIN fetched.rows :
                  /\ fetched.rows[n].UNIT # None
                  /\ Get(fetched.rows[n].UNIT) \in Range(AsList(Req.unit_names))

\* A unit list is given, the warehouse has a fact with a listed unit and a
\* fact without a unit, and something was fetched.
C29_Witness ==
    /\ Succeeded
    /\ Count(Req.unit_names) > 0
    /\ \E f \in FactsAsked : f.UNIT = None
    /\ \E f \in FactsAsked : f.UNIT # None /\ Get(f.UNIT) \in Range(AsList(Req.unit_names))
    /\ fetched.rows # <<>>

\* No unit list is given and a fact without a unit was fetched with an
\* empty UNIT.
C29_WitnessUnfiltered ==
    /\ Succeeded
    /\ Count(Req.unit_names) = 0
    /\ \E n \in DOMAIN fetched.rows : fetched.rows[n].UNIT = None

-----------------------------------------------------------------------------
(* The wide table and the order of tied rows.                              *)

\* The wide tables the call can return on this warehouse content, over the
\* orders in which the warehouse may return the rows.
PossibleResults == {o.result : o \in get_data_outcome(Req, facts)}

\* C30 (as claimed): for the warehouse content and the request of the call,
\* the wide table returned is the only one the call can return.
C30_WideTableDetermined ==
    Pivoted => PossibleResults = {result}

====
